---- MODULE Spec2Model ----
(***************************************************************************)
(* rofs-filtered 1.8: a read-only FUSE passthrough that hides entries of   *)
(* the source tree by path pattern, by file type and by extension          *)
(* priority.  Strings are sequences of one-character strings, so that the  *)
(* path arithmetic of std::filesystem and the pattern match are computed.  *)
(***************************************************************************)
EXTENDS Integers, Sequences, FiniteSets, TLC

VARIABLES
    conf,         \* struct rofs_config: rw_path, invert, preserve_perms
    hasPattern,   \* bool hasPattern
    pattern,      \* regex_t pattern: the alternatives of the combined expression
    modes,        \* std::unordered_set<mode_t> modes
    extPriority,  \* std::unordered_multimap<string,string> extPriority, as <<key, value>> pairs
    rcExt,        \* the extensions the |extensionPriority: line of the configuration
                  \* file lists, in its order (empty: the file has no such line)
    rcfile,       \* the configuration file: whether it can be opened, and its lines
    proc,         \* the process: where main() is, how often read_config has been
                  \* called, and the exit status
    fs,           \* the real source tree, by path relative to the source root
    call,         \* the callback invocation in progress and what it returned
    threads       \* the callbacks that FUSE worker threads run step by step: for each
                  \* thread its position and its local variables

vars == <<conf, hasPattern, pattern, modes, extPriority, rcExt, rcfile, proc, fs, call, threads>>

(***************************************************************************)
(* Bounds of the model.                                                    *)
(***************************************************************************)
\* how many bytes a regular file of the source tree holds
FileSize == 1
\* the fill callback may report a full buffer after 0..MaxFill entries
MaxFill == 0
\* a configuration file read at startup holds up to MaxLines lines, or three
\* lines of which the second does not compile
MaxLines == 2

\* calls of should_hide in a row with the same arguments that are counted
MaxCalls == 2

(***************************************************************************)
(* Program and OS constants.                                               *)
(***************************************************************************)
S_IFMT == 61440
S_IFSOCK == 49152
S_IFLNK == 40960
S_IFREG == 32768
S_IFBLK == 24576
S_IFDIR == 16384
S_IFCHR == 8192
S_IFIFO == 4096
DT_UNKNOWN == 0
S_IWUSR == 128
S_IWGRP == 16
S_IWOTH == 2
O_RDONLY == 0
O_WRONLY == 1
O_RDWR == 2
O_CREAT == 64
O_EXCL == 128
O_TRUNC == 512
O_APPEND == 1024
W_OK == 2
R_OK == 4
F_OK == 0
EPERM == 1
ENOENT == 2
EACCES == 13
EEXIST == 17
ENOTDIR == 20
EISDIR == 21
EINVAL == 22
ESPIPE == 29
ENODATA == 61

(***************************************************************************)
(* Integer helpers: C's & on non-negative ints.                            *)
(***************************************************************************)
\* the values of the bits of a 16-bit word
BitValues == {1, 2, 4, 8, 16, 32, 64, 128, 256, 512, 1024, 2048, 4096, 8192, 16384, 32768}

RECURSIVE SumOf(_)
SumOf(S) == IF S = {} THEN 0 ELSE LET x == CHOOSE y \in S : TRUE IN x + SumOf(S \ {x})

\* a & b: the bits set in both
BitAnd(a, b) == SumOf({p \in BitValues : (a \div p) % 2 = 1 /\ (b \div p) % 2 = 1})

\* a & ~m
BitClear(a, m) == a - BitAnd(a, m)

Min(a, b) == IF a < b THEN a ELSE b

Max(a, b) == IF a > b THEN a ELSE b

(***************************************************************************)
(* Strings.                                                                *)
(***************************************************************************)
SLASH == "/"

DOT == "."

StartsWith(s, pre) ==
    /\ Len(pre) <= Len(s)
    /\ SubSeq(s, 1, Len(pre)) = pre

EndsWith(s, suf) ==
    /\ Len(suf) <= Len(s)
    /\ SubSeq(s, Len(s) - Len(suf) + 1, Len(s)) = suf

\* some occurrence of lit in s
Contains(s, lit) ==
    \E i \in 1..(Len(s) - Len(lit) + 1) : SubSeq(s, i, i + Len(lit) - 1) = lit

\* position of the first c in s at or after i, 0 when there is none
RECURSIVE IndexFrom(_, _, _)
IndexFrom(s, c, i) ==
    IF i > Len(s) THEN 0 ELSE IF s[i] = c THEN i ELSE IndexFrom(s, c, i + 1)

\* position of the last c in s at or before i, 0 when there is none
RECURSIVE IndexBefore(_, _, _)
IndexBefore(s, c, i) ==
    IF i < 1 THEN 0 ELSE IF s[i] = c THEN i ELSE IndexBefore(s, c, i - 1)

LastIndexOf(s, c) == IndexBefore(s, c, Len(s))

\* the part of s before the first c, all of s when there is none
UpTo(s, c) ==
    LET k == IndexFrom(s, c, 1)
    IN IF k = 0 THEN s ELSE SubSeq(s, 1, k - 1)

\* the components of a path: the maximal runs without a separator
RECURSIVE Split(_)
Split(s) ==
    IF s = <<>> THEN <<>>
    ELSE IF Head(s) = SLASH THEN Split(Tail(s))
    ELSE LET c == UpTo(s, SLASH)
         IN <<c>> \o Split(SubSeq(s, Len(c) + 1, Len(s)))

(***************************************************************************)
(* std::filesystem::path, as libstdc++ implements it on POSIX.             *)
(***************************************************************************)
\* path::is_absolute
is_absolute(p) == p # <<>> /\ Head(p) = SLASH

\* path::relative_path: the path without its root directory
RECURSIVE relative_path(_)
relative_path(p) ==
    IF p # <<>> /\ Head(p) = SLASH THEN relative_path(Tail(p)) ELSE p

\* path::filename: what follows the last separator
filename(p) == SubSeq(p, LastIndexOf(p, SLASH) + 1, Len(p))

\* path::has_filename
has_filename(p) == filename(p) # <<>>

\* operator/(lhs, rhs)
PathAppend(lhs, rhs) ==
    IF is_absolute(rhs) \/ lhs = <<>> THEN rhs
    ELSE IF has_filename(lhs) THEN lhs \o <<SLASH>> \o rhs
    ELSE lhs \o rhs

\* path::extension: from the last period of the filename, unless the
\* filename is "." or ".." or the period is its first character
extension(p) ==
    LET f == filename(p)
        i == LastIndexOf(f, DOT)
    IN IF f = <<DOT>> \/ f = <<DOT, DOT>> \/ i <= 1 THEN <<>>
       ELSE SubSeq(f, i, Len(f))

\* path::replace_extension
replace_extension(p, repl) ==
    LET stem == SubSeq(p, 1, Len(p) - Len(extension(p)))
    IN IF repl = <<>> THEN stem
       ELSE IF Head(repl) = DOT THEN stem \o repl
       ELSE stem \o <<DOT>> \o repl

\* Translate an rofs path into its underlying filesystem path.
translate_path(path) == PathAppend(conf.rw_path, relative_path(path))

(***************************************************************************)
(* The real filesystem.  fs maps a node (the components of a path below    *)
(* the source root) to its entry: type is the S_IFMT part of st_mode (0:   *)
(* no such entry), tgt says where a symbolic link leads ("dangling", a     *)
(* regular file "reg" or a directory "dir" outside the source tree), size  *)
(* is the length of a regular file.  Directories outside the source tree   *)
(* are empty.                                                              *)
(***************************************************************************)
NoEnt == [type |-> 0, tgt |-> "", size |-> 0]

\* no entry any more: what another process has unlinked
Gone == [type |-> 0, tgt |-> "gone", size |-> 0]

Reg == [type |-> S_IFREG, tgt |-> "", size |-> FileSize]

\* a regular file that another process has created under the mount
Created == [type |-> S_IFREG, tgt |-> "created", size |-> FileSize]

Dir == [type |-> S_IFDIR, tgt |-> "", size |-> 0]

Fifo == [type |-> S_IFIFO, tgt |-> "", size |-> 0]

Lnk(t) == [type |-> S_IFLNK, tgt |-> t, size |-> 0]

\* the extensions of file names, in the order readdir(3) returns the files
ExtAlphabet == <<"a", "b", "c">>

\* x.a, x.b, ...
FileName(e) == <<"x", DOT, e>>

DirName == <<"d">>

\* where a path resolution stands: in a directory of the tree, or in a
\* directory outside of it
InTree(n) == [ext |-> FALSE, node |-> n]

Outside == [ext |-> TRUE, node |-> <<>>]

Failed(e) == [err |-> e, ent |-> NoEnt, at |-> Outside]

Found(en, where) == [err |-> 0, ent |-> en, at |-> where]

\* the directory entry a resolution standing at cur denotes
DirAt(f, cur) == Found(IF cur.ext THEN Dir ELSE f[cur.node], cur)

\* Path resolution from directory cur along the components rest; follow says
\* whether a symbolic link as the last component is followed (stat) or not
\* (lstat).
RECURSIVE Walk(_, _, _, _)
Walk(f, cur, rest, follow) ==
    IF rest = <<>> THEN DirAt(f, cur)
    ELSE LET c == Head(rest)
             more == Tail(rest)
         IN IF c = <<DOT>> THEN Walk(f, cur, more, follow)
            ELSE IF c = <<DOT, DOT>> THEN
                IF cur.ext \/ cur.node = <<>> THEN Walk(f, Outside, more, follow)
                ELSE Walk(f, InTree(SubSeq(cur.node, 1, Len(cur.node) - 1)), more, follow)
            ELSE IF cur.ext THEN Failed(ENOENT)
            ELSE LET child == Append(cur.node, c)
                     en == IF child \in DOMAIN f THEN f[child] ELSE NoEnt
                 IN IF en.type = 0 THEN Failed(ENOENT)
                    ELSE IF en.type = S_IFDIR THEN Walk(f, InTree(child), more, follow)
                    ELSE IF en.type = S_IFLNK /\ (more # <<>> \/ follow) THEN
                        IF en.tgt = "dir" THEN Walk(f, Outside, more, follow)
                        ELSE IF en.tgt = "reg" THEN
                            IF more = <<>> THEN Found(Reg, InTree(child)) ELSE Failed(ENOTDIR)
                        ELSE Failed(ENOENT)
                    ELSE IF more = <<>> THEN Found(en, InTree(child))
                    ELSE Failed(ENOTDIR)

\* the components of a real path below the source root
BelowRoot(rp) ==
    LET c == Split(rp)
        r == Split(conf.rw_path)
    IN SubSeq(c, Len(r) + 1, Len(c))

\* lstat answering from what the tree held before any unlink
lstat_remembered(f, rp) ==
    Walk([n \in DOMAIN f |-> IF f[n] = Gone THEN Reg ELSE f[n]], InTree(<<>>), BelowRoot(rp), FALSE)

\* lstat(2): errno (0 for success) and the entry
lstat(f, rp) == Walk(f, InTree(<<>>), BelowRoot(rp), FALSE)

\* stat(2)
stat(f, rp) == Walk(f, InTree(<<>>), BelowRoot(rp), TRUE)

\* exists answering from the tree as it was before other processes
\* unlinked and created entries
exists_remembered(f, rp) ==
    stat([n \in DOMAIN f |-> IF f[n] = Gone THEN Reg
                             ELSE IF f[n] = Created THEN NoEnt ELSE f[n]], rp).err = 0

\* std::filesystem::exists(p): status(p) follows symbolic links
exists(f, rp) == stat(f, rp).err = 0


(***************************************************************************)
(* The compiled configuration.                                             *)
(***************************************************************************)
REG_NOMATCH == 1

\* One alternative of the combined expression "(l1)|(l2)|...": the lines
\* considered are a literal, optionally anchored at the end with $.
Alt(lit, atEnd) == [lit |-> lit, atEnd |-> atEnd]

AltMatches(alt, name) ==
    IF alt.atEnd THEN EndsWith(name, alt.lit) ELSE Contains(name, alt.lit)

\* regexec(&pattern, name, 0, NULL, 0): 0 when some alternative matches
\* somewhere in name
regexec(pat, name) ==
    IF \E i \in 1..Len(pat) : AltMatches(pat[i], name) THEN 0 ELSE REG_NOMATCH

\* split(s, delim): std::getline until the stream is exhausted, so a trailing
\* delimiter adds no empty item
RECURSIVE split(_, _)
split(s, delim) ==
    IF s = <<>> THEN <<>>
    ELSE LET item == UpTo(s, delim)
         IN <<item>> \o split(SubSeq(s, Len(item) + 2, Len(s)), delim)

\* the pairs with key and value exchanged
ExtensionPairs_swapped(extensions) ==
    {<<<<DOT>> \o extensions[i2], <<DOT>> \o extensions[i]>> :
        <<i, i2>> \in {q \in (1..Len(extensions)) \X (1..Len(extensions)) : q[2] < q[1]}}

\* the pairs one |extensionPriority: line adds to extPriority: the outer
\* iterator it runs over the list backwards, it2 over what precedes it
ExtensionPairs(extensions) ==
    {<<<<DOT>> \o extensions[i], <<DOT>> \o extensions[i2]>> :
        <<i, i2>> \in {q \in (1..Len(extensions)) \X (1..Len(extensions)) : q[2] < q[1]}}

\* what follows the prefix "|extensionPriority:" on a line holding the
\* extensions in the order given
RECURSIVE JoinWith(_, _)
JoinWith(items, delim) ==
    IF items = <<>> THEN <<>>
    ELSE IF Len(items) = 1 THEN items[1]
    ELSE items[1] \o <<delim>> \o JoinWith(Tail(items), delim)

(***************************************************************************)
(* read_config: the configuration file is a sequence of lines of text.     *)
(***************************************************************************)
\* \s of the two parser expressions
Whitespace == {" ", "\t"}

RECURSIVE SkipSpace(_)
SkipSpace(s) ==
    IF s # <<>> /\ Head(s) \in Whitespace THEN SkipSpace(Tail(s)) ELSE s

RECURSIVE TrimRight(_)
TrimRight(s) ==
    IF s # <<>> /\ s[Len(s)] \in Whitespace THEN TrimRight(SubSeq(s, 1, Len(s) - 1)) ELSE s

\* regexec of ignore_pattern "^#|^\s*$" finds a match
IgnoreMatches(line) ==
    \/ line # <<>> /\ Head(line) = "#"
    \/ \A i \in 1..Len(line) : line[i] \in Whitespace

TYPE_KEY == <<"t", "y", "p", "e", ":">>

CHR == <<"C", "H", "R">>
BLK == <<"B", "L", "K">>
LNK == <<"L", "N", "K">>
FIFO == <<"F", "I", "F", "O">>
SOCK == <<"S", "O", "C", "K">>

\* regexec of type_pattern "^\|\s*type:\s*(CHR|BLK|FIFO|LNK|SOCK)\s*$": the
\* text of group 1, empty when the line does not match
TypeMatch(line) ==
    IF line = <<>> \/ Head(line) # "|" THEN <<>>
    ELSE LET a == SkipSpace(Tail(line))
         IN IF ~StartsWith(a, TYPE_KEY) THEN <<>>
            ELSE LET k == TrimRight(SkipSpace(SubSeq(a, Len(TYPE_KEY) + 1, Len(a))))
                 IN IF k \in {CHR, BLK, FIFO, LNK, SOCK} THEN k ELSE <<>>

\* the strncmp chain on the text of group 1: the modes the line adds
TypeModes(kind) ==
    IF StartsWith(kind, CHR) THEN {BitAnd(S_IFCHR, S_IFMT)}
    ELSE IF StartsWith(kind, BLK) THEN {BitAnd(S_IFBLK, S_IFMT)}
    ELSE IF StartsWith(kind, LNK) THEN {BitAnd(S_IFLNK, S_IFMT)}
    ELSE IF StartsWith(kind, FIFO) THEN {BitAnd(S_IFIFO, S_IFMT)}
    ELSE IF StartsWith(kind, SOCK) THEN {BitAnd(S_IFSOCK, S_IFMT)}
    ELSE {}

\* static const std::string prefix("|extensionPriority:")
ExtPrefix == <<"|", "e", "x", "t", "e", "n", "s", "i", "o", "n", "P", "r", "i", "o", "r", "i", "t", "y", ":">>

\* the nesting depth of parentheses at the end of an expression, -1 when it
\* ends in a lone backslash; an unmatched ")" is an ordinary character
RECURSIVE ParenDepth(_, _)
ParenDepth(s, depth) ==
    IF s = <<>> THEN depth
    ELSE IF Head(s) = "\\" THEN (IF Len(s) = 1 THEN -1 ELSE ParenDepth(SubSeq(s, 3, Len(s)), depth))
    ELSE IF Head(s) = "(" THEN ParenDepth(Tail(s), depth + 1)
    ELSE IF Head(s) = ")" /\ depth > 0 THEN ParenDepth(Tail(s), depth - 1)
    ELSE ParenDepth(Tail(s), depth)

\* the branches of an expression: its pieces between the "|" outside of
\* parentheses; cur is the branch being read
RECURSIVE Branches(_, _, _)
Branches(s, depth, cur) ==
    IF s = <<>> THEN <<cur>>
    ELSE IF Head(s) = "\\" /\ Len(s) > 1
         THEN Branches(SubSeq(s, 3, Len(s)), depth, cur \o SubSeq(s, 1, 2))
    ELSE IF Head(s) = "|" /\ depth = 0 THEN <<cur>> \o Branches(Tail(s), 0, <<>>)
    ELSE IF Head(s) = "(" THEN Branches(Tail(s), depth + 1, Append(cur, "("))
    ELSE IF Head(s) = ")" /\ depth > 0 THEN Branches(Tail(s), depth - 1, Append(cur, ")"))
    ELSE Branches(Tail(s), depth, Append(cur, Head(s)))

\* a branch without the parentheses that enclose it
RECURSIVE Unwrap(_)
Unwrap(b) ==
    IF Len(b) >= 2 /\ Head(b) = "(" /\ b[Len(b)] = ")" /\ ParenDepth(SubSeq(b, 2, Len(b) - 1), 0) = 0
    THEN Unwrap(SubSeq(b, 2, Len(b) - 1))
    ELSE b

\* the characters of a branch, each with whether a backslash escapes it
RECURSIVE Tokens(_)
Tokens(b) ==
    IF b = <<>> THEN <<>>
    ELSE IF Head(b) = "\\" /\ Len(b) > 1
         THEN <<[c |-> b[2], esc |-> TRUE]>> \o Tokens(SubSeq(b, 3, Len(b)))
    ELSE <<[c |-> Head(b), esc |-> FALSE]>> \o Tokens(Tail(b))

\* a branch made of literal characters, with or without the anchor $ at its
\* end, compiled
CompileBranch(b) ==
    LET t == Tokens(Unwrap(b))
        anchored == t # <<>> /\ t[Len(t)] = [c |-> "$", esc |-> FALSE]
        n == IF anchored THEN Len(t) - 1 ELSE Len(t)
    IN Alt([i \in 1..n |-> t[i].c], anchored)

\* regcomp(&pattern, text, REG_EXTENDED | REG_NOSUB): the error code and the
\* compiled alternatives
regcomp(text) ==
    IF ParenDepth(text, 0) # 0 THEN [err |-> 1, alts |-> <<>>]
    ELSE LET bs == Branches(text, 0, <<>>)
         IN [err |-> 0, alts |-> [i \in 1..Len(bs) |-> CompileBranch(bs[i])]]

\* the loop left at the first line that does not compile
RECURSIVE read_lines_stopAtBadLine(_, _, _, _)
read_lines_stopAtBadLine(lines, full, m, x) ==
    IF lines = <<>> THEN [full |-> full, modes |-> m, extPriority |-> x]
    ELSE LET line == Head(lines)
             rest == Tail(lines)
             extensions == split(SubSeq(line, Len(ExtPrefix) + 1, Len(line)), ",")
         IN IF line = <<>> \/ IgnoreMatches(line) THEN read_lines_stopAtBadLine(rest, full, m, x)
            ELSE IF TypeMatch(line) # <<>>
                 THEN read_lines_stopAtBadLine(rest, full, m \cup TypeModes(TypeMatch(line)), x)
            ELSE IF StartsWith(line, ExtPrefix)
                 THEN read_lines_stopAtBadLine(rest, full, m, x \cup ExtensionPairs(extensions))
            ELSE IF regcomp(line).err # 0 THEN [full |-> full, modes |-> m, extPriority |-> x]
            ELSE IF full # <<>>
                 THEN read_lines_stopAtBadLine(rest, full \o <<"|", "(">> \o line \o <<")">>, m, x)
            ELSE read_lines_stopAtBadLine(rest, <<"(">> \o line \o <<")">>, m, x)

\* the loop with each |extensionPriority: line replacing the pairs of the
\* lines before it
RECURSIVE read_lines_lastLineWins(_, _, _, _)
read_lines_lastLineWins(lines, full, m, x) ==
    IF lines = <<>> THEN [full |-> full, modes |-> m, extPriority |-> x]
    ELSE LET line == Head(lines)
             rest == Tail(lines)
             extensions == split(SubSeq(line, Len(ExtPrefix) + 1, Len(line)), ",")
         IN IF line = <<>> \/ IgnoreMatches(line) THEN read_lines_lastLineWins(rest, full, m, x)
            ELSE IF TypeMatch(line) # <<>>
                 THEN read_lines_lastLineWins(rest, full, m \cup TypeModes(TypeMatch(line)), x)
            ELSE IF StartsWith(line, ExtPrefix)
                 THEN read_lines_lastLineWins(rest, full, m, ExtensionPairs(extensions))
            ELSE IF regcomp(line).err # 0 THEN read_lines_lastLineWins(rest, full, m, x)
            ELSE IF full # <<>>
                 THEN read_lines_lastLineWins(rest, full \o <<"|", "(">> \o line \o <<")">>, m, x)
            ELSE read_lines_lastLineWins(rest, <<"(">> \o line \o <<")">>, m, x)

\* the while loop over the lines: full is full_pattern, m the set modes and
\* x the map extPriority
RECURSIVE read_lines(_, _, _, _)
read_lines(lines, full, m, x) ==
    IF lines = <<>> THEN [full |-> full, modes |-> m, extPriority |-> x]
    ELSE LET line == Head(lines)
             rest == Tail(lines)
             extensions == split(SubSeq(line, Len(ExtPrefix) + 1, Len(line)), ",")
         IN IF line = <<>> \/ IgnoreMatches(line) THEN read_lines(rest, full, m, x)
            ELSE IF TypeMatch(line) # <<>>
                 THEN read_lines(rest, full, m \cup TypeModes(TypeMatch(line)), x)
            ELSE IF StartsWith(line, ExtPrefix)
                 THEN read_lines(rest, full, m, x \cup ExtensionPairs(extensions))
            ELSE IF regcomp(line).err # 0 THEN read_lines(rest, full, m, x)
            ELSE IF full # <<>>
                 THEN read_lines(rest, full \o <<"|", "(">> \o line \o <<")">>, m, x)
            ELSE read_lines(rest, <<"(">> \o line \o <<")">>, m, x)

\* read_config failing whenever no pattern line compiled
read_config_requiresPattern(file) ==
    LET r == read_lines(file.lines, <<>>, {}, {})
        c == regcomp(r.full)
    IN IF ~file.readable \/ r.full = <<>> \/ c.err # 0
       THEN [ret |-> -1, hasPattern |-> r.full # <<>>, pattern |-> <<>>,
             modes |-> r.modes, extPriority |-> r.extPriority]
       ELSE [ret |-> 0, hasPattern |-> TRUE, pattern |-> c.alts,
             modes |-> r.modes, extPriority |-> r.extPriority]

\* read_config on a file, given the globals as static initialisation left
\* them: the return value and the globals afterwards
read_config(file) ==
    LET r == read_lines(file.lines, <<>>, {}, {})
        c == regcomp(r.full)
    IN IF ~file.readable
       THEN [ret |-> -1, hasPattern |-> FALSE, pattern |-> <<>>, modes |-> {}, extPriority |-> {}]
       ELSE IF r.full = <<>> /\ r.extPriority = {} /\ r.modes = {}
       THEN [ret |-> -1, hasPattern |-> FALSE, pattern |-> <<>>, modes |-> {}, extPriority |-> {}]
       ELSE IF r.full = <<>>
       THEN [ret |-> 0, hasPattern |-> FALSE, pattern |-> <<>>,
             modes |-> r.modes, extPriority |-> r.extPriority]
       ELSE IF c.err # 0
       THEN [ret |-> -1, hasPattern |-> TRUE, pattern |-> <<>>,
             modes |-> r.modes, extPriority |-> r.extPriority]
       ELSE [ret |-> 0, hasPattern |-> TRUE, pattern |-> c.alts,
             modes |-> r.modes, extPriority |-> r.extPriority]

(***************************************************************************)
(* should_hide                                                             *)
(***************************************************************************)
\* extPriority.equal_range(ext)
equal_range(ext) == {pr \in extPriority : pr[1] = ext}

\* the loop over the range: fname is rewritten in place by each round
RECURSIVE ProbeSiblings(_, _, _)
ProbeSiblings(f, fname, range) ==
    IF range = {} THEN FALSE
    ELSE LET it == CHOOSE pr \in range : TRUE
             sibling == replace_extension(fname, it[2])
         IN IF exists(f, sibling) THEN TRUE
            ELSE ProbeSiblings(f, sibling, range \ {it})

\* should_hide with the type rule hiding in invert mode too
should_hide_typeAlwaysHides(f, name, mode) ==
    LET m == BitAnd(mode, S_IFMT)
    IN IF /\ ~conf.invert
          /\ extPriority # {}
          /\ ProbeSiblings(f, translate_path(name), equal_range(extension(translate_path(name))))
       THEN TRUE
       ELSE IF m \in modes THEN TRUE
       ELSE IF conf.invert /\ m # S_IFREG /\ m # S_IFDIR THEN conf.invert
       ELSE IF hasPattern /\ regexec(pattern, name) = 0 THEN ~conf.invert
       ELSE conf.invert

\* should_hide with the invert test for other types returning !conf.invert
should_hide_carveOutShows(f, name, mode) ==
    LET m == BitAnd(mode, S_IFMT)
    IN IF /\ ~conf.invert
          /\ extPriority # {}
          /\ ProbeSiblings(f, translate_path(name), equal_range(extension(translate_path(name))))
       THEN TRUE
       ELSE IF m \in modes THEN ~conf.invert
       ELSE IF conf.invert /\ m # S_IFREG /\ m # S_IFDIR THEN ~conf.invert
       ELSE IF hasPattern /\ regexec(pattern, name) = 0 THEN ~conf.invert
       ELSE conf.invert

\* should_hide with the extension probe made in invert mode too
should_hide_probeInInvert(f, name, mode) ==
    LET m == BitAnd(mode, S_IFMT)
    IN IF /\ extPriority # {}
          /\ ProbeSiblings(f, translate_path(name), equal_range(extension(translate_path(name))))
       THEN TRUE
       ELSE IF m \in modes THEN ~conf.invert
       ELSE IF conf.invert /\ m # S_IFREG /\ m # S_IFDIR THEN conf.invert
       ELSE IF hasPattern /\ regexec(pattern, name) = 0 THEN ~conf.invert
       ELSE conf.invert

\* should_hide with the invert test exempting S_IFREG alone
should_hide_dirNotExempt(f, name, mode) ==
    LET m == BitAnd(mode, S_IFMT)
    IN IF /\ ~conf.invert
          /\ extPriority # {}
          /\ ProbeSiblings(f, translate_path(name), equal_range(extension(translate_path(name))))
       THEN TRUE
       ELSE IF m \in modes THEN ~conf.invert
       ELSE IF conf.invert /\ m # S_IFREG THEN conf.invert
       ELSE IF hasPattern /\ regexec(pattern, name) = 0 THEN ~conf.invert
       ELSE conf.invert

\* should_hide keeping the name of its last call in a static and hiding a
\* name it is asked about twice in a row
should_hide_staticLast(f, name, mode) ==
    LET m == BitAnd(mode, S_IFMT)
    IN IF call.op = "should_hide" /\ call.path = name THEN TRUE
       ELSE IF /\ ~conf.invert
               /\ extPriority # {}
               /\ ProbeSiblings(f, translate_path(name), equal_range(extension(translate_path(name))))
       THEN TRUE
       ELSE IF m \in modes THEN ~conf.invert
       ELSE IF conf.invert /\ m # S_IFREG /\ m # S_IFDIR THEN conf.invert
       ELSE IF hasPattern /\ regexec(pattern, name) = 0 THEN ~conf.invert
       ELSE conf.invert

\* If the file name matches one of the RegEx patterns, hide it.
should_hide(f, name, mode) ==
    LET m == BitAnd(mode, S_IFMT)
    IN IF /\ ~conf.invert
          /\ extPriority # {}
          /\ ProbeSiblings(f, translate_path(name), equal_range(extension(translate_path(name))))
       THEN TRUE
       ELSE IF m \in modes THEN ~conf.invert
       ELSE IF conf.invert /\ m # S_IFREG /\ m # S_IFDIR THEN conf.invert
       ELSE IF hasPattern /\ regexec(pattern, name) = 0 THEN ~conf.invert
       ELSE conf.invert


(***************************************************************************)
(* The system calls the callbacks make, on the real tree f.                *)
(***************************************************************************)
\* IFTODT and DTTOIF of <dirent.h>
IFTODT(mode) == BitAnd(mode, S_IFMT) \div 4096

DTTOIF(dirtype) == dirtype * 4096

\* the names an entry of the tree can have, in the order readdir(3)
\* returns them
NameOrder == [i \in 1..Len(ExtAlphabet) |-> FileName(ExtAlphabet[i])] \o <<DirName>>

Dirent(name, type) == [d_name |-> name, d_type |-> IFTODT(type)]

RECURSIVE ChildDirents(_, _, _)
ChildDirents(f, node, i) ==
    IF i > Len(NameOrder) THEN <<>>
    ELSE LET child == Append(node, NameOrder[i])
         IN (IF child \in DOMAIN f /\ f[child].type # 0
             THEN <<Dirent(NameOrder[i], f[child].type)>> ELSE <<>>)
            \o ChildDirents(f, node, i + 1)

\* opendir(3) followed by readdir(3) until NULL: errno and the entries
opendir(f, rp) ==
    LET st == stat(f, rp)
    IN IF st.err # 0 THEN [err |-> st.err, dents |-> <<>>]
       ELSE IF st.ent.type # S_IFDIR THEN [err |-> ENOTDIR, dents |-> <<>>]
       ELSE [err |-> 0,
             dents |-> <<Dirent(<<DOT>>, S_IFDIR), Dirent(<<DOT, DOT>>, S_IFDIR)>>
                       \o (IF st.at.ext THEN <<>> ELSE ChildDirents(f, st.at.node, 1))]

\* readlink(2): -1 with errno, or the number of bytes placed in buf
readlink(f, rp, bufsiz) ==
    LET l == lstat(f, rp)
    IN IF l.err # 0 THEN [res |-> -1, errno |-> l.err]
       ELSE IF l.ent.type # S_IFLNK THEN [res |-> -1, errno |-> EINVAL]
       ELSE [res |-> Min(bufsiz, 1), errno |-> 0]

\* open(2) with the given flags: the descriptor or -1 with errno, and the
\* tree afterwards (O_CREAT creates what is missing, O_TRUNC empties a
\* regular file)
open(f, rp, flags) ==
    LET st == stat(f, rp)
        l == lstat(f, rp)
        creat == BitAnd(flags, O_CREAT) # 0
        excl == BitAnd(flags, O_EXCL) # 0
        trunc == BitAnd(flags, O_TRUNC) # 0
        wr == BitAnd(flags, O_WRONLY) # 0 \/ BitAnd(flags, O_RDWR) # 0
        comps == BelowRoot(rp)
    IN IF st.err # 0 THEN
           IF creat /\ l.err = 0 /\ l.ent.type = S_IFLNK /\ l.ent.tgt = "dangling" /\ ~excl
           THEN [res |-> 3, errno |-> 0, fs |-> [f EXCEPT ![l.at.node] = Lnk("reg")]]
           ELSE IF creat /\ l.err = ENOENT /\ comps \in DOMAIN f /\ comps # <<>>
                   /\ f[SubSeq(comps, 1, Len(comps) - 1)].type = S_IFDIR
           THEN [res |-> 3, errno |-> 0, fs |-> [f EXCEPT ![comps] = [Reg EXCEPT !.size = 0]]]
           ELSE [res |-> -1, errno |-> IF creat /\ excl /\ l.err = 0 THEN EEXIST ELSE st.err, fs |-> f]
       ELSE IF creat /\ excl THEN [res |-> -1, errno |-> EEXIST, fs |-> f]
       ELSE IF st.ent.type = S_IFDIR /\ (wr \/ trunc) THEN [res |-> -1, errno |-> EISDIR, fs |-> f]
       ELSE IF trunc /\ st.ent.type = S_IFREG /\ l.ent.type = S_IFREG
       THEN [res |-> 3, errno |-> 0, fs |-> [f EXCEPT ![l.at.node].size = 0]]
       ELSE [res |-> 3, errno |-> 0, fs |-> f]

\* pread(2) on a descriptor of the entry en
pread(en, size, offset) ==
    IF en.type = S_IFDIR THEN [res |-> -1, errno |-> EISDIR]
    ELSE IF en.type = S_IFREG THEN [res |-> Min(size, Max(0, en.size - offset)), errno |-> 0]
    ELSE [res |-> -1, errno |-> ESPIPE]

\* statvfs(3)
statvfs(f, rp) ==
    LET st == stat(f, rp)
    IN IF st.err # 0 THEN [res |-> -1, errno |-> st.err] ELSE [res |-> 0, errno |-> 0]

\* access(2); granted: whether the permission bits of the entry allow mode
access(f, rp, mode, granted) ==
    LET st == stat(f, rp)
    IN IF st.err # 0 THEN [res |-> -1, errno |-> st.err]
       ELSE IF mode # F_OK /\ ~granted THEN [res |-> -1, errno |-> EACCES]
       ELSE [res |-> 0, errno |-> 0]

\* lgetxattr(2): the entries of the tree carry no extended attribute
lgetxattr(f, rp) ==
    LET l == lstat(f, rp)
    IN IF l.err # 0 THEN [res |-> -1, errno |-> l.err] ELSE [res |-> -1, errno |-> ENODATA]

\* llistxattr(2)
llistxattr(f, rp) ==
    LET l == lstat(f, rp)
    IN IF l.err # 0 THEN [res |-> -1, errno |-> l.err] ELSE [res |-> 0, errno |-> 0]


(***************************************************************************)
(* Callbacks for FUSE: what each returns and leaves behind, given the real *)
(* tree f and its arguments.  perm stands for the permission bits lstat    *)
(* reports for the entry.                                                  *)
(***************************************************************************)
WriteBits == S_IWUSR + S_IWGRP + S_IWOTH

\* callback_getattr clearing S_IWUSR alone
callback_getattr_userOnly(f, path, perm) ==
    LET trpath == translate_path(path)
        l == lstat(f, trpath)
        st_mode == l.ent.type + perm
    IN IF l.err # 0 THEN [ret |-> -l.err, lst |-> 0, st |-> 0]
       ELSE IF should_hide(f, path, st_mode) THEN [ret |-> -ENOENT, lst |-> st_mode, st |-> st_mode]
       ELSE [ret |-> 0, lst |-> st_mode,
             st |-> IF ~conf.preserve_perms THEN BitClear(st_mode, S_IWUSR) ELSE st_mode]

callback_getattr(f, path, perm) ==
    LET trpath == translate_path(path)
        l == lstat(f, trpath)
        st_mode == l.ent.type + perm
    IN IF l.err # 0 THEN [ret |-> -l.err, lst |-> 0, st |-> 0]
       ELSE IF should_hide(f, path, st_mode) THEN [ret |-> -ENOENT, lst |-> st_mode, st |-> st_mode]
       ELSE [ret |-> 0, lst |-> st_mode,
             st |-> IF ~conf.preserve_perms THEN BitClear(st_mode, WriteBits) ELSE st_mode]

callback_readlink(f, path, size) ==
    LET trpath == translate_path(path)
        r == readlink(f, trpath, size - 1)
    IN IF should_hide(f, path, S_IFLNK) THEN -ENOENT
       ELSE IF r.res = -1 THEN -r.errno
       ELSE 0

\* the while loop of callback_readdir over the entries still to come; known:
\* whether the directory entries carry d_type; room: how many entries the
\* filler takes before it reports a full buffer (-1: it never does); acc:
\* the names passed to the filler so far
\* the loop with should_hide asked about the bare entry name
RECURSIVE readdir_loop_bareName(_, _, _, _, _, _)
readdir_loop_bareName(f, path, dents, known, room, acc) ==
    IF dents = <<>> THEN acc
    ELSE LET de == Head(dents)
             fullPath == PathAppend(path, de.d_name)
             d_type == IF known THEN de.d_type ELSE DT_UNKNOWN
             l == lstat(f, translate_path(fullPath))
             stmode == IF DTTOIF(d_type) = DT_UNKNOWN
                       THEN (IF l.err # 0 THEN 0 ELSE l.ent.type)
                       ELSE DTTOIF(d_type)
         IN IF should_hide(f, de.d_name, stmode)
            THEN readdir_loop_bareName(f, path, Tail(dents), known, room, acc)
            ELSE IF room # -1 /\ Len(acc) >= room THEN acc
            ELSE readdir_loop_bareName(f, path, Tail(dents), known, room, Append(acc, de.d_name))

\* the loop taking d_type as it comes, without the lstat for DT_UNKNOWN
RECURSIVE readdir_loop_noFallback(_, _, _, _, _, _)
readdir_loop_noFallback(f, path, dents, known, room, acc) ==
    IF dents = <<>> THEN acc
    ELSE LET de == Head(dents)
             fullPath == PathAppend(path, de.d_name)
             d_type == IF known THEN de.d_type ELSE DT_UNKNOWN
             stmode == DTTOIF(d_type)
         IN IF should_hide(f, fullPath, stmode)
            THEN readdir_loop_noFallback(f, path, Tail(dents), known, room, acc)
            ELSE IF room # -1 /\ Len(acc) >= room THEN acc
            ELSE readdir_loop_noFallback(f, path, Tail(dents), known, room,
                                         Append(acc, de.d_name))

RECURSIVE readdir_loop(_, _, _, _, _, _)
readdir_loop(f, path, dents, known, room, acc) ==
    IF dents = <<>> THEN acc
    ELSE LET de == Head(dents)
             fullPath == PathAppend(path, de.d_name)
             d_type == IF known THEN de.d_type ELSE DT_UNKNOWN
             l == lstat(f, translate_path(fullPath))
             stmode == IF DTTOIF(d_type) = DT_UNKNOWN
                       THEN (IF l.err # 0 THEN 0 ELSE l.ent.type)
                       ELSE DTTOIF(d_type)
         IN IF should_hide(f, fullPath, stmode)
            THEN readdir_loop(f, path, Tail(dents), known, room, acc)
            ELSE IF room # -1 /\ Len(acc) >= room THEN acc
            ELSE readdir_loop(f, path, Tail(dents), known, room, Append(acc, de.d_name))

callback_readdir(f, path, known, room) ==
    LET trpath == translate_path(path)
        dp == opendir(f, trpath)
    IN IF should_hide(f, path, S_IFREG) THEN [ret |-> -ENOENT, names |-> <<>>]
       ELSE IF dp.err # 0 THEN [ret |-> -dp.err, names |-> <<>>]
       ELSE [ret |-> 0, names |-> readdir_loop(f, path, dp.dents, known, room, <<>>)]

callback_mknod(path) == -EPERM

callback_mkdir(path) == -EPERM

callback_unlink(path) == -EPERM

callback_rmdir(path) == -EPERM

callback_symlink(from, to) == -EPERM

callback_rename(f, from, to) ==
    IF should_hide(f, from, S_IFREG) THEN -ENOENT ELSE -EPERM

callback_link(f, from, to) ==
    IF should_hide(f, from, S_IFREG) THEN -ENOENT ELSE -EPERM

callback_chmod(f, path) ==
    IF should_hide(f, path, S_IFREG) THEN -ENOENT ELSE -EPERM

callback_chown(f, path) ==
    IF should_hide(f, path, S_IFREG) THEN -ENOENT ELSE -EPERM

callback_truncate(f, path) ==
    IF should_hide(f, path, S_IFREG) THEN -ENOENT ELSE -EPERM

callback_utime(path) == -EPERM

\* the test without O_TRUNC
write_intent_noTrunc(flags) ==
    \/ BitAnd(flags, O_WRONLY) # 0
    \/ BitAnd(flags, O_RDWR) # 0
    \/ BitAnd(flags, O_CREAT) # 0
    \/ BitAnd(flags, O_EXCL) # 0

\* the test of finfo->flags in callback_open
write_intent(flags) ==
    \/ BitAnd(flags, O_WRONLY) # 0
    \/ BitAnd(flags, O_RDWR) # 0
    \/ BitAnd(flags, O_CREAT) # 0
    \/ BitAnd(flags, O_EXCL) # 0
    \/ BitAnd(flags, O_TRUNC) # 0

\* the flags tested before the hide check
callback_open_flagsFirst(f, path, flags) ==
    LET trpath == translate_path(path)
        l == lstat(f, trpath)
        o == open(f, trpath, flags)
    IN IF l.err # 0 THEN [ret |-> -l.err, fs |-> f, opened |-> FALSE]
       ELSE IF write_intent(flags) THEN [ret |-> -EPERM, fs |-> f, opened |-> FALSE]
       ELSE IF should_hide(f, path, l.ent.type) THEN [ret |-> -ENOENT, fs |-> f, opened |-> FALSE]
       ELSE IF o.res = -1 THEN [ret |-> -o.errno, fs |-> o.fs, opened |-> TRUE]
       ELSE [ret |-> 0, fs |-> o.fs, opened |-> TRUE]

callback_open(f, path, flags) ==
    LET trpath == translate_path(path)
        l == lstat(f, trpath)
        o == open(f, trpath, flags)
    IN IF l.err # 0 THEN [ret |-> -l.err, fs |-> f, opened |-> FALSE]
       ELSE IF should_hide(f, path, l.ent.type) THEN [ret |-> -ENOENT, fs |-> f, opened |-> FALSE]
       ELSE IF write_intent(flags) THEN [ret |-> -EPERM, fs |-> f, opened |-> FALSE]
       ELSE IF o.res = -1 THEN [ret |-> -o.errno, fs |-> o.fs, opened |-> TRUE]
       ELSE [ret |-> 0, fs |-> o.fs, opened |-> TRUE]

callback_read(f, path, size, offset) ==
    LET trpath == translate_path(path)
        l == lstat(f, trpath)
        o == open(f, trpath, O_RDONLY)
        r == pread(stat(o.fs, trpath).ent, size, offset)
    IN IF l.err # 0 THEN [ret |-> -l.err, fs |-> f]
       ELSE IF should_hide(f, path, l.ent.type) THEN [ret |-> -ENOENT, fs |-> f]
       ELSE IF o.res = -1 THEN [ret |-> -o.errno, fs |-> o.fs]
       ELSE IF r.res = -1 THEN [ret |-> -r.errno, fs |-> o.fs]
       ELSE [ret |-> r.res, fs |-> o.fs]

callback_write(f, path) ==
    LET l == lstat(f, translate_path(path))
    IN IF l.err # 0 THEN -l.err
       ELSE IF should_hide(f, path, l.ent.type) THEN -ENOENT
       ELSE -EPERM

callback_statfs(f, path) ==
    LET trpath == translate_path(path)
        l == lstat(f, trpath)
        r == statvfs(f, trpath)
    IN IF l.err # 0 THEN -l.err
       ELSE IF should_hide(f, path, l.ent.type) THEN -ENOENT
       ELSE IF r.res = -1 THEN -r.errno
       ELSE 0

callback_release(path) == 0

callback_fsync(path) == 0

\* the hide check made before the lstat, as the callbacks without lstat do
callback_access_hideFirst(f, path, mode, granted) ==
    LET trpath == translate_path(path)
        l == lstat(f, trpath)
        r == access(f, trpath, mode, granted)
    IN IF should_hide(f, path, S_IFREG) THEN -ENOENT
       ELSE IF l.err # 0 THEN -l.err
       ELSE IF should_hide(f, path, l.ent.type) THEN -ENOENT
       ELSE IF BitAnd(mode, W_OK) # 0 THEN -1
       ELSE IF r.res = -1 /\ r.errno # 0 THEN -r.errno
       ELSE r.res

callback_access(f, path, mode, granted) ==
    LET trpath == translate_path(path)
        l == lstat(f, trpath)
        r == access(f, trpath, mode, granted)
    IN IF l.err # 0 THEN -l.err
       ELSE IF should_hide(f, path, l.ent.type) THEN -ENOENT
       ELSE IF BitAnd(mode, W_OK) # 0 THEN -1
       ELSE IF r.res = -1 /\ r.errno # 0 THEN -r.errno
       ELSE r.res

callback_setxattr(f, path) ==
    IF should_hide(f, path, S_IFREG) THEN -ENOENT ELSE -EPERM

callback_getxattr(f, path) ==
    LET trpath == translate_path(path)
        l == lstat(f, trpath)
        r == lgetxattr(f, trpath)
    IN IF l.err # 0 THEN -l.err
       ELSE IF should_hide(f, path, l.ent.type) THEN -ENOENT
       ELSE IF r.res = -1 THEN -r.errno
       ELSE r.res

callback_listxattr(f, path) ==
    LET trpath == translate_path(path)
        l == lstat(f, trpath)
        r == llistxattr(f, trpath)
    IN IF l.err # 0 THEN -l.err
       ELSE IF should_hide(f, path, l.ent.type) THEN -ENOENT
       ELSE IF r.res = -1 THEN -r.errno
       ELSE r.res

callback_removexattr(f, path) ==
    IF should_hide(f, path, S_IFREG) THEN -ENOENT ELSE -EPERM


(***************************************************************************)
(* The state after main() has parsed the options and read_config()         *)
(* returned 0, over the source trees of a family.                          *)
(***************************************************************************)
SourceRoot == <<SLASH, "s">>

\* the virtual path of a node, as FUSE passes it
VPath(node) == IF node = <<>> THEN <<SLASH>> ELSE <<SLASH>> \o JoinWith(node, SLASH)

\* the paths FUSE may pass: those of the nodes of the tree, present or not
VPaths == {VPath(n) : n \in DOMAIN fs}

\* the orders in which one |extensionPriority: line can list the extensions E
ExtOrders(E) ==
    {o \in [1..Cardinality(E) -> E] : \A i, j \in 1..Cardinality(E) : i # j => o[i] # o[j]}

\* the text of the line after the prefix, and what read_config makes of it
ExtensionLine(o) == JoinWith([i \in 1..Len(o) |-> <<o[i]>>], ",")

ParseExtensionLine(text) == ExtensionPairs(split(text, ","))

\* the text of a pattern line that compiles to alt
RECURSIVE Escaped(_)
Escaped(lit) ==
    IF lit = <<>> THEN <<>>
    ELSE (IF Head(lit) \in {DOT, "$", "(", ")", "|", "\\"} THEN <<"\\", Head(lit)>> ELSE <<Head(lit)>>)
         \o Escaped(Tail(lit))

AltText(alt) == Escaped(alt.lit) \o (IF alt.atEnd THEN <<"$">> ELSE <<>>)

\* the line "| type: KIND"
TypeLine(kind) == <<"|", " ">> \o TYPE_KEY \o <<" ">> \o kind

\* the line "|extensionPriority:" followed by the extensions in the order o
ExtLine(o) == ExtPrefix \o ExtensionLine(o)

\* a configuration file with the pattern lines of pat, a type line for each
\* mode of ms and a line for the extensions exts
RcFileOf(pat, ms, exts) ==
    [readable |-> TRUE,
     lines |-> [i \in 1..Len(pat) |-> AltText(pat[i])]
               \o (IF S_IFLNK \in ms THEN <<TypeLine(LNK)>> ELSE <<>>)
               \o (IF S_IFIFO \in ms THEN <<TypeLine(FIFO)>> ELSE <<>>)
               \o (IF exts # <<>> THEN <<ExtLine(exts)>> ELSE <<>>)]

\* main() has called read_config once and entered fuse_main
Serving == [pc |-> "serving", reads |-> 1, status |-> 0]

\* the pattern lines \.a$ and d
PatternChoices == {<<>>, <<Alt(<<DOT, "a">>, TRUE)>>, <<Alt(DirName, FALSE)>>}

FileKinds == {NoEnt, Reg, Fifo, Lnk("dangling")}

\* A tree: top gives the entries x.<ext> of the root, dk the entry d, sub the
\* entries x.<ext> of d when d is a directory.
Tree(top, dk, sub) ==
    [n \in {<<>>, <<DirName>>} \cup {<<FileName(e)>> : e \in DOMAIN top}
            \cup {<<DirName, FileName(e)>> : e \in DOMAIN sub} |->
        IF n = <<>> THEN Dir
        ELSE IF n = <<DirName>> THEN dk
        ELSE IF Len(n) = 1 THEN top[n[1][3]]
        ELSE IF dk = Dir THEN sub[n[2][3]]
        ELSE NoEnt]

\* any kind of entry for x.a and x.b; d is a directory holding x.a, or a link
\* to a directory elsewhere
Trees ==
    {Tree(top, dk, [e \in {"a"} |-> Reg]) :
        <<top, dk>> \in [{"a", "b"} -> FileKinds] \X {Dir, Lnk("dir")}}

NoCall ==
    [op |-> "idle", path |-> <<>>, ret |-> 0, flags |-> 0, lst |-> 0, st |-> 0,
     names |-> <<>>, known |-> TRUE, room |-> -1, opened |-> FALSE,
     trpath |-> <<>>, nth |-> 0]

\* read_config fails when the file yields no pattern, no type and no
\* extension pair, and main() then exits
ConfigLoaded == ~(pattern = <<>> /\ extPriority = {} /\ modes = {})

Init ==
    /\ conf \in [rw_path : {SourceRoot}, invert : BOOLEAN, preserve_perms : {FALSE}]
    /\ pattern \in PatternChoices
    /\ hasPattern = (pattern # <<>>)
    /\ modes \in {{}, {S_IFLNK}, {S_IFIFO}}
    /\ rcExt \in {<<>>} \cup ExtOrders({"a", "b"})
    /\ extPriority = ParseExtensionLine(ExtensionLine(rcExt))
    /\ ConfigLoaded
    /\ rcfile = RcFileOf(pattern, modes, rcExt)
    /\ proc = Serving
    /\ fs \in Trees
    /\ call = NoCall
    /\ threads = <<>>

(***************************************************************************)
(* One action per entry of callback_oper: FUSE invokes the callback with   *)
(* a path and arguments and receives its return value.                     *)
(***************************************************************************)
\* 0555, 0666, 07777
Perms == {365, 438, 4095}

OpenFlags == {O_RDONLY, O_WRONLY, O_RDWR, O_CREAT, O_EXCL, O_TRUNC, O_APPEND}

AccessModes == {F_OK, R_OK, W_OK}

configVars == <<conf, hasPattern, pattern, modes, extPriority, rcExt, rcfile, proc, threads>>

\* fuse_main is serving and no callback is in progress
Idle == proc.pc = "serving" /\ call.op = "idle"

\* a callback that returns ret and touches nothing
Returns(op, path, ret) ==
    /\ call' = [NoCall EXCEPT !.op = op, !.path = path, !.ret = ret]
    /\ UNCHANGED <<configVars, fs>>

\* getattr adding the type of the entry it hides to modes
op_getattr_remembersType ==
    /\ Idle
    /\ \E path \in VPaths, perm \in Perms :
        LET r == callback_getattr(fs, path, perm)
        IN /\ call' = [NoCall EXCEPT !.op = "getattr", !.path = path, !.ret = r.ret,
                                     !.lst = r.lst, !.st = r.st]
           /\ modes' = IF r.ret = -ENOENT /\ r.lst # 0
                       THEN modes \cup {BitAnd(r.lst, S_IFMT)} ELSE modes
    /\ UNCHANGED <<conf, hasPattern, pattern, extPriority, rcExt, rcfile, proc, threads, fs>>

op_getattr ==
    /\ Idle
    /\ \E path \in VPaths, perm \in Perms :
        LET r == callback_getattr(fs, path, perm)
        IN call' = [NoCall EXCEPT !.op = "getattr", !.path = path, !.ret = r.ret,
                                  !.lst = r.lst, !.st = r.st]
    /\ UNCHANGED <<configVars, fs>>

op_readlink ==
    /\ Idle
    /\ \E path \in VPaths : Returns("readlink", path, callback_readlink(fs, path, 2))

op_readdir ==
    /\ Idle
    /\ \E path \in VPaths, known \in BOOLEAN, room \in {-1} \cup 0..MaxFill :
        LET r == callback_readdir(fs, path, known, room)
        IN call' = [NoCall EXCEPT !.op = "readdir", !.path = path, !.ret = r.ret,
                                  !.names = r.names, !.known = known, !.room = room]
    /\ UNCHANGED <<configVars, fs>>

op_mknod == Idle /\ \E path \in VPaths : Returns("mknod", path, callback_mknod(path))

op_mkdir == Idle /\ \E path \in VPaths : Returns("mkdir", path, callback_mkdir(path))

op_unlink == Idle /\ \E path \in VPaths : Returns("unlink", path, callback_unlink(path))

op_rmdir == Idle /\ \E path \in VPaths : Returns("rmdir", path, callback_rmdir(path))

op_symlink ==
    Idle /\ \E from \in VPaths, to \in VPaths : Returns("symlink", to, callback_symlink(from, to))

op_rename ==
    Idle /\ \E from \in VPaths, to \in VPaths : Returns("rename", from, callback_rename(fs, from, to))

op_link ==
    Idle /\ \E from \in VPaths, to \in VPaths : Returns("link", from, callback_link(fs, from, to))

op_chmod == Idle /\ \E path \in VPaths : Returns("chmod", path, callback_chmod(fs, path))

op_chown == Idle /\ \E path \in VPaths : Returns("chown", path, callback_chown(fs, path))

op_truncate == Idle /\ \E path \in VPaths : Returns("truncate", path, callback_truncate(fs, path))

op_utime == Idle /\ \E path \in VPaths : Returns("utime", path, callback_utime(path))

op_open ==
    /\ Idle
    /\ \E path \in VPaths, flags \in OpenFlags :
        LET r == callback_open(fs, path, flags)
        IN /\ call' = [NoCall EXCEPT !.op = "open", !.path = path, !.ret = r.ret,
                                     !.flags = flags, !.opened = r.opened]
           /\ fs' = r.fs
    /\ UNCHANGED configVars

op_read ==
    /\ Idle
    /\ \E path \in VPaths, offset \in 0..FileSize :
        LET r == callback_read(fs, path, FileSize + 1, offset)
        IN /\ call' = [NoCall EXCEPT !.op = "read", !.path = path, !.ret = r.ret, !.flags = offset]
           /\ fs' = r.fs
    /\ UNCHANGED configVars

op_write == Idle /\ \E path \in VPaths : Returns("write", path, callback_write(fs, path))

op_statfs == Idle /\ \E path \in VPaths : Returns("statfs", path, callback_statfs(fs, path))

op_release == Idle /\ \E path \in VPaths : Returns("release", path, callback_release(path))

op_fsync == Idle /\ \E path \in VPaths : Returns("fsync", path, callback_fsync(path))

op_access ==
    /\ Idle
    /\ \E path \in VPaths, mode \in AccessModes, granted \in BOOLEAN :
        /\ call' = [NoCall EXCEPT !.op = "access", !.path = path, !.flags = mode,
                                  !.ret = callback_access(fs, path, mode, granted)]
    /\ UNCHANGED <<configVars, fs>>

op_setxattr == Idle /\ \E path \in VPaths : Returns("setxattr", path, callback_setxattr(fs, path))

op_getxattr == Idle /\ \E path \in VPaths : Returns("getxattr", path, callback_getxattr(fs, path))

op_listxattr == Idle /\ \E path \in VPaths : Returns("listxattr", path, callback_listxattr(fs, path))

op_removexattr ==
    Idle /\ \E path \in VPaths : Returns("removexattr", path, callback_removexattr(fs, path))

\* FUSE has delivered the return value to the caller
Reply ==
    /\ call.op # "idle"
    /\ call' = NoCall
    /\ UNCHANGED <<configVars, fs>>

Next ==
    \/ op_getattr \/ op_readlink \/ op_readdir
    \/ op_mknod \/ op_mkdir \/ op_unlink \/ op_rmdir \/ op_symlink
    \/ op_rename \/ op_link \/ op_chmod \/ op_chown \/ op_truncate \/ op_utime
    \/ op_open \/ op_read \/ op_write \/ op_statfs
    \/ op_release \/ op_fsync \/ op_access
    \/ op_setxattr \/ op_getxattr \/ op_listxattr \/ op_removexattr
    \/ Reply

Spec == Init /\ [][Next]_vars

(***************************************************************************)
(* Mounted with or without -o preserve-perms, over the same trees and a    *)
(* smaller family of configurations.                                       *)
(***************************************************************************)
InitPreserve ==
    /\ conf \in [rw_path : {SourceRoot}, invert : BOOLEAN, preserve_perms : BOOLEAN]
    /\ pattern \in PatternChoices
    /\ hasPattern = (pattern # <<>>)
    /\ modes \in {{}, {S_IFLNK}}
    /\ rcExt = <<>>
    /\ extPriority = ParseExtensionLine(ExtensionLine(rcExt))
    /\ ConfigLoaded
    /\ rcfile = RcFileOf(pattern, modes, rcExt)
    /\ proc = Serving
    /\ fs \in Trees
    /\ call = NoCall
    /\ threads = <<>>

SpecPreserve == InitPreserve /\ [][Next]_vars

(***************************************************************************)
(* Normal mode with one |extensionPriority: line that lists a, b and c, or *)
(* a and b, in any order, over trees that hold x.a, x.b and x.c in the     *)
(* root and x.a and x.b in the directory d.                                *)
(***************************************************************************)
TreesExt ==
    {Tree(top, Dir, sub) :
        <<top, sub>> \in
            {t \in [{"a", "b", "c"} -> {NoEnt, Reg, Fifo}] : t["b"] # Fifo /\ t["c"] # Fifo}
            \X [{"a", "b"} -> {NoEnt, Reg}]}

InitExt ==
    /\ conf \in [rw_path : {SourceRoot}, invert : {FALSE}, preserve_perms : {FALSE}]
    /\ pattern \in {<<>>, <<Alt(<<DOT, "a">>, TRUE)>>}
    /\ hasPattern = (pattern # <<>>)
    /\ modes = {}
    /\ rcExt \in ExtOrders({"a", "b", "c"}) \cup ExtOrders({"a", "b"})
    /\ extPriority = ParseExtensionLine(ExtensionLine(rcExt))
    /\ ConfigLoaded
    /\ rcfile = RcFileOf(pattern, modes, rcExt)
    /\ proc = Serving
    /\ fs \in TreesExt
    /\ call = NoCall
    /\ threads = <<>>

SpecExt == InitExt /\ [][Next]_vars


(***************************************************************************)
(* Startup: main() parses the options, checks the source directory, reads  *)
(* the configuration file and enters fuse_main.                            *)
(***************************************************************************)
\* the lines a configuration file is made of: a comment, a blank line, type
\* lines, extension lines, the patterns \.a$ and d, and the pattern (
RcLines ==
    {<<"#", "c">>, <<" ">>, TypeLine(LNK), <<"|">> \o TYPE_KEY \o FIFO,
     ExtLine(<<>>), ExtLine(<<"a">>), ExtLine(<<"a", "b">>), ExtLine(<<"b", "a">>),
     <<"\\", DOT, "a", "$">>, DirName, <<"(">>}

\* the lines that take effect
ValidLines == {TypeLine(LNK), ExtLine(<<"a", "b">>), <<"\\", DOT, "a", "$">>, DirName}

RcFiles ==
    {[readable |-> r, lines |-> l] :
        <<r, l>> \in BOOLEAN \X (UNION {[1..n -> RcLines] : n \in 0..MaxLines}
                                 \cup {<<a, <<"(">>, b>> : <<a, b>> \in ValidLines \X ValidLines})}

\* the extensions of the first |extensionPriority: line read_config processes
RECURSIVE FirstExtList(_)
FirstExtList(lines) ==
    IF lines = <<>> THEN <<>>
    ELSE LET line == Head(lines)
         IN IF ~IgnoreMatches(line) /\ TypeMatch(line) = <<>> /\ StartsWith(line, ExtPrefix)
            THEN split(SubSeq(line, Len(ExtPrefix) + 1, Len(line)), ",")
            ELSE FirstExtList(Tail(lines))

\* a directory that is not there
MissingRoot == <<SLASH, "n">>

\* access(conf.rw_path, F_OK) succeeds
SourceExists(rw_path) == rw_path = SourceRoot

\* the source tree: x.a, and the directory d holding x.a
TreeMain == Tree([e \in {"a"} |-> Reg], Dir, [e \in {"a"} |-> Reg])

Exited(status) == [proc EXCEPT !.pc = "exited", !.status = status]

\* memset(&conf, 0, sizeof(conf)) and the globals as static initialisation
\* leaves them
InitMain ==
    /\ conf = [rw_path |-> <<>>, invert |-> FALSE, preserve_perms |-> FALSE]
    /\ hasPattern = FALSE
    /\ pattern = <<>>
    /\ modes = {}
    /\ extPriority = {}
    /\ rcfile \in RcFiles
    /\ rcExt = FirstExtList(rcfile.lines)
    /\ proc = [pc |-> "main", reads |-> 0, status |-> 0]
    /\ fs = TreeMain
    /\ call = NoCall
    /\ threads = <<>>

\* fuse_opt_parse with rofs_opts and rofs_opt_proc: -h and -V print and
\* exit; source=, invert and preserve-perms are stored in conf
main_fuse_opt_parse ==
    /\ proc.pc = "main"
    /\ \E key \in {"none", "KEY_HELP", "KEY_VERSION"},
          src \in {<<>>, SourceRoot, MissingRoot}, inv \in BOOLEAN, pp \in BOOLEAN :
        IF key = "KEY_HELP" THEN proc' = Exited(1) /\ UNCHANGED conf
        ELSE IF key = "KEY_VERSION" THEN proc' = Exited(0) /\ UNCHANGED conf
        ELSE /\ conf' = [rw_path |-> src, invert |-> inv, preserve_perms |-> pp]
             /\ proc' = [proc EXCEPT !.pc = "parsed"]
    /\ UNCHANGED <<hasPattern, pattern, modes, extPriority, rcExt, rcfile, fs, call, threads>>

\* the two checks of conf.rw_path
main_check_source ==
    /\ proc.pc = "parsed"
    /\ proc' = IF conf.rw_path = <<>> \/ ~SourceExists(conf.rw_path) THEN Exited(2)
               ELSE [proc EXCEPT !.pc = "checked"]
    /\ UNCHANGED <<conf, hasPattern, pattern, modes, extPriority, rcExt, rcfile, fs, call, threads>>

\* read_config returns 0 and main() goes on
main_read_config_ignoreError ==
    /\ proc.pc = "checked"
    /\ LET r == read_config(rcfile)
       IN /\ hasPattern' = r.hasPattern
          /\ pattern' = r.pattern
          /\ modes' = r.modes
          /\ extPriority' = r.extPriority
          /\ proc' = [proc EXCEPT !.pc = "serving", !.reads = @ + 1]
    /\ UNCHANGED <<conf, rcExt, rcfile, fs, call, threads>>

\* if (read_config(conf.config)) exit(3); return fuse_main(...)
main_read_config ==
    /\ proc.pc = "checked"
    /\ LET r == read_config(rcfile)
       IN /\ hasPattern' = r.hasPattern
          /\ pattern' = r.pattern
          /\ modes' = r.modes
          /\ extPriority' = r.extPriority
          /\ proc' = IF r.ret # 0
                     THEN [proc EXCEPT !.pc = "exited", !.reads = @ + 1, !.status = 3]
                     ELSE [proc EXCEPT !.pc = "serving", !.reads = @ + 1]
    /\ UNCHANGED <<conf, rcExt, rcfile, fs, call, threads>>

NextMain == main_fuse_opt_parse \/ main_check_source \/ main_read_config \/ Next

SpecMain == InitMain /\ [][NextMain]_vars

(***************************************************************************)
(* translate_path under source roots and virtual paths with zero, one or   *)
(* two separators at the joint.                                            *)
(***************************************************************************)
\* s with n separators in front of it
RECURSIVE Leading(_, _)
Leading(n, s) == IF n = 0 THEN s ELSE <<SLASH>> \o Leading(n - 1, s)

\* s with n separators behind it
RECURSIVE Trailing(_, _)
Trailing(s, n) == IF n = 0 THEN s ELSE Trailing(s, n - 1) \o <<SLASH>>

\* -o source=/s, /s/t, with up to two separators at the end
SourceRoots == {Trailing(r, n) : <<r, n>> \in {SourceRoot, SourceRoot \o <<SLASH, "t">>} \X (0..2)}

\* the portions relative to the mount root
RelativePortions ==
    {<<>>, FileName("a"), FileName("b"), DirName, DirName \o <<SLASH>>,
     DirName \o <<SLASH>> \o FileName("a"), DirName \o <<SLASH>> \o FileName("b"),
     DirName \o <<SLASH, SLASH>> \o FileName("a")}

VirtualPaths == {Leading(n, r) : <<n, r>> \in (0..2) \X RelativePortions}

InitTranslate ==
    /\ conf \in [rw_path : SourceRoots, invert : {FALSE}, preserve_perms : {FALSE}]
    /\ pattern = <<Alt(DirName, FALSE)>>
    /\ hasPattern = TRUE
    /\ modes = {}
    /\ rcExt = <<>>
    /\ extPriority = {}
    /\ rcfile = RcFileOf(pattern, modes, rcExt)
    /\ proc = Serving
    /\ fs = TreeMain
    /\ call = NoCall
    /\ threads = <<>>

\* a callback computes translate_path(path)
do_translate_path ==
    /\ Idle
    /\ \E path \in VirtualPaths :
        call' = [NoCall EXCEPT !.op = "translate_path", !.path = path,
                               !.trpath = translate_path(path)]
    /\ UNCHANGED <<configVars, fs>>

NextTranslate == do_translate_path \/ Reply

SpecTranslate == InitTranslate /\ [][NextTranslate]_vars

(***************************************************************************)
(* Two FUSE worker threads run callbacks at the same time.  A callback     *)
(* proceeds in the steps of its code: lstat into its own struct stat,      *)
(* should_hide, and what follows; its path, stat buffer and return value   *)
(* are variables of its own stack frame.                                   *)
(***************************************************************************)
Threads == {1, 2}

ThreadOps == {"getattr", "open", "readlink", "chmod", "unlink"}

\* perm stands for the permission bits lstat reports to the thread
ThreadIdle ==
    [pc |-> "idle", op |-> "idle", path |-> <<>>, flags |-> 0, perm |-> 0,
     st |-> Failed(0), ret |-> 0]

InitThreads ==
    /\ conf \in [rw_path : {SourceRoot}, invert : BOOLEAN, preserve_perms : {FALSE}]
    /\ pattern = <<Alt(<<DOT, "a">>, TRUE)>>
    /\ hasPattern = TRUE
    /\ modes = {S_IFLNK}
    /\ rcExt = <<>>
    /\ extPriority = {}
    /\ rcfile = RcFileOf(pattern, modes, rcExt)
    /\ proc = Serving
    /\ fs \in {Tree([e \in {"a", "b"} |-> IF e = "a" THEN Reg ELSE k], Dir, [e \in {"a"} |-> Reg]) :
                 k \in {Reg, Lnk("reg")}}
    /\ call = NoCall
    /\ threads = [t \in Threads |-> ThreadIdle]

\* what only the thread t changes
ThreadStep(t, rec) ==
    /\ threads' = [threads EXCEPT ![t] = rec]
    /\ UNCHANGED <<conf, hasPattern, pattern, modes, extPriority, rcExt, rcfile, proc, fs, call>>

\* FUSE hands a request to the thread t
t_call(t) ==
    /\ threads[t].pc = "idle"
    /\ \E op \in ThreadOps, path \in VPaths, flags \in {O_RDONLY, O_WRONLY},
          perm \in {0} \cup Perms :
        /\ op # "open" => flags = O_RDONLY
        /\ (op = "getattr") = (perm \in Perms)
        /\ ThreadStep(t, [ThreadIdle EXCEPT !.op = op, !.path = path, !.flags = flags,
                             !.perm = perm,
                             !.pc = IF op \in {"getattr", "open"} THEN "lstat"
                                    ELSE IF op \in {"readlink", "chmod"} THEN "should_hide"
                                    ELSE "finish"])

\* lstat into a buffer every thread shares
t_lstat_sharedBuffer(t) ==
    /\ threads[t].pc = "lstat"
    /\ LET l == lstat(fs, translate_path(threads[t].path))
       IN threads' = [u \in Threads |->
                        IF u = t
                        THEN (IF l.err # 0
                              THEN [threads[t] EXCEPT !.st = l, !.ret = -l.err, !.pc = "done"]
                              ELSE [threads[t] EXCEPT !.st = l, !.pc = "should_hide"])
                        ELSE [threads[u] EXCEPT !.st = l]]
    /\ UNCHANGED <<conf, hasPattern, pattern, modes, extPriority, rcExt, rcfile, proc, fs, call>>

\* if (lstat(trpath.c_str(), &st)) return -errno;
t_lstat(t) ==
    /\ threads[t].pc = "lstat"
    /\ LET l == lstat(fs, translate_path(threads[t].path))
       IN IF l.err # 0
          THEN ThreadStep(t, [threads[t] EXCEPT !.st = l, !.ret = -l.err, !.pc = "done"])
          ELSE ThreadStep(t, [threads[t] EXCEPT !.st = l, !.pc = "should_hide"])

\* if (should_hide(path, mode)) return -ENOENT; with the mode of the stat
\* buffer, S_IFLNK or S_IFREG
t_should_hide(t) ==
    /\ threads[t].pc = "should_hide"
    /\ LET me == threads[t]
           mode == IF me.op = "getattr" THEN me.st.ent.type + me.perm
                   ELSE IF me.op = "open" THEN me.st.ent.type
                   ELSE IF me.op = "readlink" THEN S_IFLNK
                   ELSE S_IFREG
       IN IF should_hide(fs, me.path, mode)
          THEN ThreadStep(t, [me EXCEPT !.ret = -ENOENT, !.pc = "done"])
          ELSE ThreadStep(t, [me EXCEPT !.pc = "finish"])

\* the rest of the callback
t_finish(t) ==
    /\ threads[t].pc = "finish"
    /\ LET me == threads[t]
           trpath == translate_path(me.path)
           o == open(fs, trpath, me.flags)
           r == readlink(fs, trpath, 1)
           ret == IF me.op = "getattr" THEN 0
                  ELSE IF me.op = "open"
                       THEN (IF write_intent(me.flags) THEN -EPERM
                             ELSE IF o.res = -1 THEN -o.errno ELSE 0)
                  ELSE IF me.op = "readlink" THEN (IF r.res = -1 THEN -r.errno ELSE 0)
                  ELSE -EPERM
       IN ThreadStep(t, [me EXCEPT !.ret = ret, !.pc = "done"])

\* the return value goes back to FUSE
t_return(t) ==
    /\ threads[t].pc = "done"
    /\ ThreadStep(t, ThreadIdle)

NextThreads ==
    \E t \in Threads : t_call(t) \/ t_lstat(t) \/ t_should_hide(t) \/ t_finish(t) \/ t_return(t)

SpecThreads == InitThreads /\ [][NextThreads]_vars

(***************************************************************************)
(* The real tree changes under the mount: between two callbacks another    *)
(* process unlinks an entry that a listing has just reported.              *)
(***************************************************************************)
InitEnv ==
    /\ conf \in [rw_path : {SourceRoot}, invert : BOOLEAN, preserve_perms : {FALSE}]
    /\ pattern \in PatternChoices \ {<<>>}
    /\ hasPattern = TRUE
    /\ modes = {}
    /\ rcExt = <<>>
    /\ extPriority = {}
    /\ rcfile = RcFileOf(pattern, modes, rcExt)
    /\ proc = Serving
    /\ fs \in {t \in Trees : t[<<FileName("a")>>] \in {NoEnt, Reg} /\ t[<<DirName>>] = Dir}
    /\ call = NoCall
    /\ threads = <<>>

\* unlink(2) by another process, once the listing that reported the entry
\* has been delivered
env_unlink ==
    /\ proc.pc = "serving"
    /\ call.op = "readdir" /\ call.ret = 0
    /\ \E n \in DOMAIN fs :
        /\ n # <<>>
        /\ call.path = VPath(SubSeq(n, 1, Len(n) - 1))
        /\ \E i \in 1..Len(call.names) : call.names[i] = n[Len(n)]
        /\ fs[n].type \notin {0, S_IFDIR}
        /\ fs' = [fs EXCEPT ![n] = Gone]
    /\ call' = NoCall
    /\ UNCHANGED configVars

NextEnv == Next \/ env_unlink

SpecEnv == InitEnv /\ [][NextEnv]_vars

(***************************************************************************)
(* should_hide called again and again, with any virtual path and any mode, *)
(* under a configuration and a real tree that stay as they are.  call      *)
(* holds the arguments and the result of the last call, and nth how many   *)
(* calls in a row had these arguments.                                     *)
(***************************************************************************)
HideModes == {0, S_IFREG, S_IFREG + S_IWUSR, S_IFDIR, S_IFLNK, S_IFIFO}

do_should_hide ==
    /\ proc.pc = "serving"
    /\ \E name \in VPaths, mode \in HideModes :
        call' = [NoCall EXCEPT !.op = "should_hide", !.path = name, !.flags = mode,
                    !.ret = IF should_hide(fs, name, mode) THEN 1 ELSE 0,
                    !.nth = IF call.op = "should_hide" /\ call.path = name /\ call.flags = mode
                            THEN Min(call.nth + 1, MaxCalls) ELSE 1]
    /\ UNCHANGED <<configVars, fs>>

NextHide == do_should_hide

SpecHide == Init /\ [][NextHide]_vars

(***************************************************************************)
(* Mounted over trees in which x.b may be a directory, next to a regular   *)
(* file x.a or alone, with or without the line |extensionPriority:a,b.     *)
(***************************************************************************)
TreesDirExt ==
    {Tree(top, Dir, [e \in {"a"} |-> Reg]) :
        top \in {t \in [{"a", "b"} -> {NoEnt, Reg, Dir}] : t["a"] # Dir /\ t["b"] # NoEnt}}

InitDirExt ==
    /\ conf \in [rw_path : {SourceRoot}, invert : BOOLEAN, preserve_perms : {FALSE}]
    /\ pattern \in {<<>>, <<Alt(DirName, FALSE)>>}
    /\ hasPattern = (pattern # <<>>)
    /\ modes \in {{}, {S_IFLNK}}
    /\ rcExt \in {<<>>, <<"a", "b">>}
    /\ extPriority = ParseExtensionLine(ExtensionLine(rcExt))
    /\ ConfigLoaded
    /\ rcfile = RcFileOf(pattern, modes, rcExt)
    /\ proc = Serving
    /\ fs \in TreesDirExt
    /\ call = NoCall
    /\ threads = <<>>

SpecDirExt == InitDirExt /\ [][Next]_vars

(***************************************************************************)
(* Mounted in either mode with the line |extensionPriority:a,b alone,      *)
(* over x.a and x.b in the root and in d, while other processes unlink and *)
(* create regular files in the real tree between the callbacks.            *)
(***************************************************************************)
InitSiblings ==
    /\ conf \in [rw_path : {SourceRoot}, invert : BOOLEAN, preserve_perms : {FALSE}]
    /\ pattern = <<>>
    /\ hasPattern = FALSE
    /\ modes = {}
    /\ rcExt = <<"a", "b">>
    /\ extPriority = ParseExtensionLine(ExtensionLine(rcExt))
    /\ rcfile = RcFileOf(pattern, modes, rcExt)
    /\ proc = Serving
    /\ fs \in {Tree(top, Dir, sub) : <<top, sub>> \in [{"a", "b"} -> {NoEnt, Reg}]
                                                      \X [{"a", "b"} -> {NoEnt, Reg}]}
    /\ call = NoCall
    /\ threads = <<>>

\* unlink(2) of a regular file by another process, between two callbacks
env_delete ==
    /\ Idle
    /\ \E n \in DOMAIN fs :
        /\ fs[n].type = S_IFREG
        /\ fs' = [fs EXCEPT ![n] = Gone]
    /\ UNCHANGED <<configVars, call>>

\* a regular file created by another process, between two callbacks
env_create ==
    /\ Idle
    /\ \E n \in DOMAIN fs :
        /\ n # <<>>
        /\ fs[n].type = 0
        /\ fs[SubSeq(n, 1, Len(n) - 1)].type = S_IFDIR
        /\ fs' = [fs EXCEPT ![n] = Created]
    /\ UNCHANGED <<configVars, call>>

NextSiblings == Next \/ env_delete \/ env_create

SpecSiblings == InitSiblings /\ [][NextSiblings]_vars

(***************************************************************************)
(* Mounted over trees in which d may be a regular file or a fifo, so that  *)
(* lstat on d/x.a fails with ENOTDIR and not with ENOENT.                  *)
(***************************************************************************)
InitLookup ==
    /\ conf \in [rw_path : {SourceRoot}, invert : BOOLEAN, preserve_perms : {FALSE}]
    /\ pattern \in {<<>>, <<Alt(<<DOT, "a">>, TRUE)>>, <<Alt(DirName, FALSE)>>}
    /\ hasPattern = (pattern # <<>>)
    /\ modes \in {{}, {S_IFIFO}}
    /\ rcExt \in {<<>>, <<"a", "b">>}
    /\ extPriority = ParseExtensionLine(ExtensionLine(rcExt))
    /\ ConfigLoaded
    /\ rcfile = RcFileOf(pattern, modes, rcExt)
    /\ proc = Serving
    /\ fs \in {Tree(top, dk, [e \in {"a"} |-> Reg]) :
                 <<top, dk>> \in [{"a", "b"} -> {NoEnt, Reg}] \X {Dir, Reg, Fifo}}
    /\ call = NoCall
    /\ threads = <<>>

SpecLookup == InitLookup /\ [][Next]_vars

(***************************************************************************)
(* main() from the call of read_config on, with configuration files of     *)
(* |extensionPriority: lines, over regular files x.a and x.b.              *)
(***************************************************************************)
ExtFileLines ==
    {<<"#", "c">>, ExtLine(<<"a">>), ExtLine(<<"a", "b">>), ExtLine(<<"b", "a">>)}

InitLines ==
    /\ conf \in [rw_path : {SourceRoot}, invert : BOOLEAN, preserve_perms : {FALSE}]
    /\ hasPattern = FALSE
    /\ pattern = <<>>
    /\ modes = {}
    /\ extPriority = {}
    /\ rcfile \in [readable : {TRUE},
                   lines : UNION {[1..n -> ExtFileLines] : n \in 1..MaxLines}]
    /\ rcExt = FirstExtList(rcfile.lines)
    /\ proc = [pc |-> "checked", reads |-> 0, status |-> 0]
    /\ fs \in {Tree(top, Dir, [e \in {"a"} |-> Reg]) : top \in [{"a", "b"} -> {NoEnt, Reg}]}
    /\ call = NoCall
    /\ threads = <<>>

NextLines == main_read_config \/ Next

SpecLines == InitLines /\ [][NextLines]_vars

(***************************************************************************)
(* callback_read step by step (lstat, should_hide, open, pread) on a       *)
(* worker thread, with the line |extensionPriority:a,b loaded, while       *)
(* another process creates regular files in the real tree between the      *)
(* steps.  shown: the hide check has let the call pass; fd: the entry the  *)
(* descriptor is open on.                                                  *)
(***************************************************************************)
ReadIdle ==
    [pc |-> "idle", op |-> "idle", path |-> <<>>, offset |-> 0, st |-> Failed(0),
     shown |-> FALSE, fd |-> NoEnt, ret |-> 0]

InitRace ==
    /\ conf \in [rw_path : {SourceRoot}, invert : BOOLEAN, preserve_perms : {FALSE}]
    /\ pattern = <<>>
    /\ hasPattern = FALSE
    /\ modes = {}
    /\ rcExt = <<"a", "b">>
    /\ extPriority = ParseExtensionLine(ExtensionLine(rcExt))
    /\ rcfile = RcFileOf(pattern, modes, rcExt)
    /\ proc = Serving
    /\ fs \in {Tree(top, Dir, [e \in {"a"} |-> Reg]) : top \in [{"a", "b"} -> {NoEnt, Reg}]}
    /\ call = NoCall
    /\ threads = <<ReadIdle>>

\* FUSE hands a read request to the thread t
r_call(t) ==
    /\ threads[t].pc = "idle"
    /\ \E path \in VPaths, offset \in 0..FileSize :
        ThreadStep(t, [ReadIdle EXCEPT !.op = "read", !.path = path, !.offset = offset,
                                       !.pc = "lstat"])

\* if (lstat(trpath.c_str(), &st)) return -errno;
r_lstat(t) ==
    /\ threads[t].pc = "lstat"
    /\ LET l == lstat(fs, translate_path(threads[t].path))
       IN IF l.err # 0
          THEN ThreadStep(t, [threads[t] EXCEPT !.st = l, !.ret = -l.err, !.pc = "done"])
          ELSE ThreadStep(t, [threads[t] EXCEPT !.st = l, !.pc = "should_hide"])

\* if (should_hide(path, st.st_mode)) return -ENOENT;
r_should_hide(t) ==
    /\ threads[t].pc = "should_hide"
    /\ IF should_hide(fs, threads[t].path, threads[t].st.ent.type)
       THEN ThreadStep(t, [threads[t] EXCEPT !.ret = -ENOENT, !.pc = "done"])
       ELSE ThreadStep(t, [threads[t] EXCEPT !.shown = TRUE, !.pc = "open"])

\* int fd = open(trpath.c_str(), O_RDONLY); if (fd == -1) return -errno;
r_open(t) ==
    /\ threads[t].pc = "open"
    /\ LET trpath == translate_path(threads[t].path)
           o == open(fs, trpath, O_RDONLY)
       IN IF o.res = -1
          THEN ThreadStep(t, [threads[t] EXCEPT !.ret = -o.errno, !.pc = "done"])
          ELSE ThreadStep(t, [threads[t] EXCEPT !.fd = stat(fs, trpath).ent, !.pc = "pread"])

\* the pread preceded by a second hide check
r_pread_recheck(t) ==
    /\ threads[t].pc = "pread"
    /\ LET r == pread(threads[t].fd, FileSize + 1, threads[t].offset)
       IN ThreadStep(t, [threads[t] EXCEPT
                            !.ret = IF should_hide(fs, threads[t].path, threads[t].st.ent.type)
                                    THEN -ENOENT
                                    ELSE IF r.res = -1 THEN -r.errno ELSE r.res,
                            !.pc = "done"])

\* int res = pread(fd, buf, size, offset); if (res == -1) res = -errno;
\* close(fd); return res;
r_pread(t) ==
    /\ threads[t].pc = "pread"
    /\ LET r == pread(threads[t].fd, FileSize + 1, threads[t].offset)
       IN ThreadStep(t, [threads[t] EXCEPT !.ret = IF r.res = -1 THEN -r.errno ELSE r.res,
                                           !.pc = "done"])

\* the return value goes back to FUSE
r_return(t) ==
    /\ threads[t].pc = "done"
    /\ ThreadStep(t, ReadIdle)

NextRace ==
    \/ \E t \in DOMAIN threads :
          r_call(t) \/ r_lstat(t) \/ r_should_hide(t) \/ r_open(t) \/ r_pread(t) \/ r_return(t)
    \/ env_create

SpecRace == InitRace /\ [][NextRace]_vars

(***************************************************************************)
(* Notions the properties below are stated with.                           *)
(***************************************************************************)
ReadOps ==
    {"getattr", "readlink", "readdir", "open", "read", "statfs", "access",
     "getxattr", "listxattr"}

MutatingOps ==
    {"mknod", "mkdir", "unlink", "rmdir", "symlink", "rename", "link", "chmod",
     "chown", "truncate", "utime", "setxattr", "removexattr", "write"}

\* the entry of the real tree behind a virtual path
RealEntry(path) == lstat(fs, translate_path(path))

\* an existing entry that should_hide, asked with its real type, hides
Hidden(path) ==
    /\ RealEntry(path).err = 0
    /\ should_hide(fs, path, RealEntry(path).ent.type)

\* an existing entry that should_hide, asked with its real type, shows
Visible(path) ==
    /\ RealEntry(path).err = 0
    /\ ~should_hide(fs, path, RealEntry(path).ent.type)

\* a callback has returned
Called(op) == call.op = op

\* the flags that ask open for more than reading
WriteIntentFlags == {O_WRONLY, O_RDWR, O_CREAT, O_EXCL, O_TRUNC}

\* bit p of the mode v
Bit(v, p) == (v \div p) % 2

(***************************************************************************)
(* C1: every read-class callback invoked on a hidden entry returns         *)
(* -ENOENT, and readdir on a directory never passes the name of a hidden   *)
(* child to the filler.                                                    *)
(***************************************************************************)
C1_HiddenReadsNotFound ==
    /\ (call.op \in ReadOps /\ Hidden(call.path)) => call.ret = -ENOENT
    /\ Called("readdir") =>
        \A i \in 1..Len(call.names) : ~Hidden(PathAppend(call.path, call.names[i]))

(***************************************************************************)
(* C2: every mutating callback invoked on a hidden entry returns -ENOENT.  *)
(***************************************************************************)
C2_HiddenMutationsNotFound ==
    (call.op \in MutatingOps /\ Hidden(call.path)) => call.ret = -ENOENT

(***************************************************************************)
(* C3: every mutating callback invoked on a visible entry returns -EPERM.  *)
(***************************************************************************)
C3_VisibleMutationsDenied ==
    (call.op \in MutatingOps /\ Visible(call.path)) => call.ret = -EPERM

(***************************************************************************)
(* C4: no callback changes the real tree, no mutating callback returns     *)
(* success, and no open with a write-intent flag returns success.          *)
(***************************************************************************)
C4_ReadOnly ==
    [][/\ fs' = fs
       /\ call'.op \in MutatingOps => call'.ret < 0
       /\ (call'.op = "open" /\ call'.flags \in WriteIntentFlags) => call'.ret < 0]_vars

\* open with O_TRUNC on a visible regular file has been refused
C4_Witness ==
    /\ Called("open")
    /\ call.flags = O_TRUNC
    /\ Visible(call.path)
    /\ RealEntry(call.path).ent.type = S_IFREG
    /\ call.ret = -EPERM


(***************************************************************************)
(* Extension priority.                                                     *)
(***************************************************************************)
\* the directories of the tree, as virtual paths
DirPaths == {VPath(<<>>), VPath(<<DirName>>)}

\* the path of x.<e> in directory dir
FileIn(dir, e) == PathAppend(dir, FileName(e))

\* the existence probe finds the entry behind a virtual path
Probed(path) == exists(fs, translate_path(path))

\* neither the type rule nor the pattern applies to the existing entry
NoOtherRule(path) ==
    /\ RealEntry(path).ent.type \notin modes
    /\ ~(hasPattern /\ regexec(pattern, path) = 0)

\* some extension the relation gives for the extension of path names a
\* sibling that the probe finds
DominantSiblingExists(path) ==
    \E pr \in extPriority :
        /\ pr[1] = extension(translate_path(path))
        /\ exists(fs, replace_extension(translate_path(path), pr[2]))

\* getattr has returned for the existing entry x.<rcExt[j]> of directory dir
GetattrOn(dir, j) ==
    /\ Called("getattr")
    /\ call.path = FileIn(dir, rcExt[j])
    /\ RealEntry(call.path).err = 0

Family(dir) == {j \in 1..Len(rcExt) : RealEntry(FileIn(dir, rcExt[j])).err = 0}

\* the members of the family of dir that a listing has passed to the filler
Emitted(dir, names) ==
    {j \in Family(dir) : \E i \in 1..Len(names) : names[i] = FileName(rcExt[j])}

(***************************************************************************)
(* C6: in normal mode with one line of distinct extensions, when no type   *)
(* or pattern rule matches the existing entries x.<ext> of a directory, a  *)
(* complete listing of the directory emits exactly one of them (so a lone  *)
(* entry is emitted, and every other entry of a family is withheld).       *)
(***************************************************************************)
C6_ExactlyOneEmitted ==
    ( /\ Called("readdir")
      /\ call.ret = 0
      /\ call.room = -1
      /\ ~conf.invert
      /\ Family(call.path) # {}
      /\ \A j \in Family(call.path) : NoOtherRule(FileIn(call.path, rcExt[j])) )
    => Cardinality(Emitted(call.path, call.names)) = 1

(***************************************************************************)
(* C7: for an existing entry whose type is an excluded type and that has   *)
(* no dominant extension sibling, should_hide hides in normal mode and     *)
(* shows in invert mode, whatever the pattern says of its path; getattr    *)
(* returns -ENOENT and success accordingly.                                *)
(***************************************************************************)
C7_TypeExclusionFlips ==
    ( /\ Called("getattr")
      /\ RealEntry(call.path).err = 0
      /\ RealEntry(call.path).ent.type \in modes
      /\ ~DominantSiblingExists(call.path) )
    => /\ should_hide(fs, call.path, RealEntry(call.path).ent.type) = ~conf.invert
       /\ call.ret = IF conf.invert THEN 0 ELSE -ENOENT

\* invert mode, rule type LNK, a pattern that matches the path of a symbolic
\* link: getattr has shown the link
C7_Witness ==
    /\ Called("getattr")
    /\ conf.invert
    /\ RealEntry(call.path).err = 0
    /\ RealEntry(call.path).ent.type = S_IFLNK
    /\ S_IFLNK \in modes
    /\ hasPattern /\ regexec(pattern, call.path) = 0
    /\ call.ret = 0

\* invert mode, an existing entry that is neither a regular file nor a
\* directory and whose type is not an excluded type
CarveOut(path) ==
    /\ conf.invert
    /\ RealEntry(path).err = 0
    /\ RealEntry(path).ent.type \notin {S_IFREG, S_IFDIR}
    /\ RealEntry(path).ent.type \notin modes

(***************************************************************************)
(* C8 as stated: in invert mode an entry that is neither a regular file    *)
(* nor a directory and whose type is not excluded is shown, whatever the   *)
(* pattern: getattr on it succeeds.                                        *)
(***************************************************************************)
C8_CarveOutShows ==
    (Called("getattr") /\ CarveOut(call.path)) =>
        /\ ~should_hide(fs, call.path, RealEntry(call.path).ent.type)
        /\ call.ret = 0

(***************************************************************************)
(* C8 amended: in invert mode an entry that is neither a regular file nor  *)
(* a directory and whose type is not excluded is hidden, whatever the      *)
(* pattern: getattr on it returns -ENOENT.                                 *)
(***************************************************************************)
C8_CarveOutHides ==
    (Called("getattr") /\ CarveOut(call.path)) =>
        /\ should_hide(fs, call.path, RealEntry(call.path).ent.type)
        /\ call.ret = -ENOENT

\* invert mode, no FIFO rule, a pattern that matches the path of a fifo:
\* getattr has reported the fifo as not found
C8_Witness ==
    /\ Called("getattr")
    /\ CarveOut(call.path)
    /\ RealEntry(call.path).ent.type = S_IFIFO
    /\ hasPattern /\ regexec(pattern, call.path) = 0
    /\ call.ret = -ENOENT

(***************************************************************************)
(* C9: in invert mode should_hide shows a regular file exactly when a      *)
(* pattern exists and matches its virtual path, under every set of         *)
(* excluded types and every extension relation; getattr on the file        *)
(* succeeds in exactly that case.                                          *)
(***************************************************************************)
C9_InvertRegularIffMatch ==
    ( /\ Called("getattr")
      /\ conf.invert
      /\ RealEntry(call.path).err = 0
      /\ RealEntry(call.path).ent.type = S_IFREG )
    => /\ ~should_hide(fs, call.path, S_IFREG) <=> (hasPattern /\ regexec(pattern, call.path) = 0)
       /\ call.ret = 0 <=> (hasPattern /\ regexec(pattern, call.path) = 0)

\* invert mode, a relation under which x.b has the existing sibling x.a, a
\* pattern that does not match x.b: getattr has reported x.b as not found
C9_Witness ==
    /\ Called("getattr")
    /\ conf.invert
    /\ call.path = FileIn(<<SLASH>>, "b")
    /\ RealEntry(call.path).err = 0
    /\ RealEntry(call.path).ent.type = S_IFREG
    /\ DominantSiblingExists(call.path)
    /\ modes # {}
    /\ hasPattern /\ regexec(pattern, call.path) # 0
    /\ call.ret = -ENOENT

(***************************************************************************)
(* C10: getattr on an existing entry that should_hide shows succeeds and   *)
(* returns the mode of the real entry with the user, group and other write *)
(* bits cleared and every other bit as it is; under preserve-perms it      *)
(* returns the mode with no bit changed.                                   *)
(***************************************************************************)
C10_GetattrClearsWriteBits ==
    (Called("getattr") /\ Visible(call.path)) =>
        /\ call.ret = 0
        /\ conf.preserve_perms => call.st = call.lst
        /\ ~conf.preserve_perms =>
            \A p \in BitValues :
                Bit(call.st, p) = IF p \in {S_IWUSR, S_IWGRP, S_IWOTH} THEN 0
                                  ELSE Bit(call.lst, p)

\* without preserve-perms, getattr on a visible entry of mode 07777 has
\* returned the mode 07555
C10_Witness ==
    /\ Called("getattr")
    /\ Visible(call.path)
    /\ ~conf.preserve_perms
    /\ BitAnd(call.lst, 4095) = 4095
    /\ BitAnd(call.st, 4095) = 3949
    /\ call.ret = 0

(***************************************************************************)
(* C11: open on an existing path decides in this order: a hidden entry     *)
(* gets -ENOENT whatever the flags; otherwise a write-only, read-write,    *)
(* create, exclusive or truncate flag gets -EPERM and the real file is not *)
(* opened; otherwise the real file is opened and the result is success or  *)
(* the error of the real open.                                             *)
(***************************************************************************)
C11_OpenOrder ==
    (Called("open") /\ RealEntry(call.path).err = 0) =>
        LET o == open(fs, translate_path(call.path), call.flags)
        IN IF Hidden(call.path) THEN call.ret = -ENOENT /\ ~call.opened
           ELSE IF call.flags \in WriteIntentFlags THEN call.ret = -EPERM /\ ~call.opened
           ELSE /\ call.opened
                /\ call.ret = IF o.res = -1 THEN -o.errno ELSE 0

\* open for writing on a hidden entry has returned -ENOENT
C11_Witness ==
    /\ Called("open")
    /\ Hidden(call.path)
    /\ call.flags = O_WRONLY
    /\ call.ret = -ENOENT

\* how many times a listing has passed name to the filler
Occurrences(names, name) == Cardinality({i \in 1..Len(names) : names[i] = name})

\* the entries readdir(3) returns for the real directory behind path
RealDents(path) == opendir(fs, translate_path(path)).dents

\* normal mode, the pattern \.a$ as only rule, x.a and x.b regular files of
\* the root, and a complete listing of the root
FlacScenario ==
    /\ ~conf.invert /\ modes = {} /\ rcExt = <<>>
    /\ pattern = <<Alt(<<DOT, "a">>, TRUE)>>
    /\ RealEntry(FileIn(<<SLASH>>, "a")).ent.type = S_IFREG
    /\ RealEntry(FileIn(<<SLASH>>, "b")).ent.type = S_IFREG
    /\ Called("readdir") /\ call.path = <<SLASH>> /\ call.room = -1

(***************************************************************************)
(* C12: when the filler never reports a full buffer, readdir on a visible  *)
(* directory succeeds and passes to the filler each entry of the real      *)
(* directory that should_hide, asked with the entry's type, shows, once,   *)
(* and nothing else; with the pattern \.a$ alone and x.a, x.b in the root, *)
(* the listing of the root holds x.b and not x.a.                          *)
(***************************************************************************)
C12_ListingExact ==
    /\ ( /\ Called("readdir") /\ call.room = -1
         /\ RealEntry(call.path).err = 0
         /\ RealEntry(call.path).ent.type = S_IFDIR
         /\ Visible(call.path) )
       => /\ call.ret = 0
          /\ \A k \in 1..Len(RealDents(call.path)) :
                LET child == PathAppend(call.path, RealDents(call.path)[k].d_name)
                IN Occurrences(call.names, RealDents(call.path)[k].d_name) =
                       IF should_hide(fs, child, RealEntry(child).ent.type) THEN 0 ELSE 1
          /\ \A i \in 1..Len(call.names) :
                \E k \in 1..Len(RealDents(call.path)) :
                    RealDents(call.path)[k].d_name = call.names[i]
    /\ FlacScenario =>
          /\ Occurrences(call.names, FileName("b")) = 1
          /\ Occurrences(call.names, FileName("a")) = 0

\* the listing of the scenario has returned with x.b and without x.a
C12_Witness ==
    /\ FlacScenario
    /\ call.ret = 0
    /\ Occurrences(call.names, FileName("b")) = 1
    /\ Occurrences(call.names, FileName("a")) = 0

\* invert mode without extension rule, a pattern that matches the path of
\* the regular file d/x.a, and a complete listing of the directory d
InvertScenario ==
    /\ conf.invert /\ rcExt = <<>>
    /\ RealEntry(VPath(<<DirName>>)).ent.type = S_IFDIR
    /\ RealEntry(FileIn(VPath(<<DirName>>), "a")).ent.type = S_IFREG
    /\ hasPattern /\ regexec(pattern, FileIn(VPath(<<DirName>>), "a")) = 0
    /\ Called("readdir") /\ call.path = VPath(<<DirName>>) /\ call.room = -1

(***************************************************************************)
(* C13: in invert mode with no extension rule and a pattern that matches   *)
(* exactly the paths of the files of the directory d (and so not the path  *)
(* of d itself), readdir on d succeeds and emits the matching file.        *)
(***************************************************************************)
C13_InvertListingEmitsMatches ==
    (InvertScenario /\ regexec(pattern, call.path) # 0) =>
        /\ call.ret = 0
        /\ Occurrences(call.names, FileName("a")) = 1

(***************************************************************************)
(* C14: read_config is called at most once and only before serving; a     *)
(* callback is served only while fuse_main serves, which it does only      *)
(* after the one call of read_config has returned success; when            *)
(* read_config fails the process has exited, and an exited process serves  *)
(* nothing.                                                                *)
(***************************************************************************)
C14_StartupOrder ==
    /\ [](/\ proc.reads <= 1
          /\ call.op # "idle" => proc.pc = "serving"
          /\ proc.pc = "serving" => (proc.reads = 1 /\ read_config(rcfile).ret = 0)
          /\ (proc.reads = 1 /\ read_config(rcfile).ret # 0) => proc.pc = "exited")
    /\ [][/\ proc'.reads # proc.reads => (proc.pc = "checked" /\ call.op = "idle")
          /\ proc.pc = "exited" => (proc'.pc = "exited" /\ call' = call)]_vars

\* a file whose only line does not compile has been read and the process
\* has exited with status 3, no callback served
C14_Witness ==
    /\ rcfile = [readable |-> TRUE, lines |-> <<<<"(">>>>]
    /\ proc = [pc |-> "exited", reads |-> 1, status |-> 3]
    /\ call = NoCall

\* line i of the file is processed as a pattern line
PatternLine(i) ==
    LET line == rcfile.lines[i]
    IN ~IgnoreMatches(line) /\ TypeMatch(line) = <<>> /\ ~StartsWith(line, ExtPrefix)

\* some pattern line of the file compiles
HasValidPattern ==
    \E i \in 1..Len(rcfile.lines) : PatternLine(i) /\ regcomp(rcfile.lines[i]).err = 0

\* some line of the file is a "| type: KIND" line
HasTypeLine ==
    \E i \in 1..Len(rcfile.lines) :
        ~IgnoreMatches(rcfile.lines[i]) /\ TypeMatch(rcfile.lines[i]) # <<>>

\* some extension line of the file lists two extensions or more
HasExtensionPair ==
    \E i \in 1..Len(rcfile.lines) :
        LET line == rcfile.lines[i]
        IN /\ ~IgnoreMatches(line) /\ TypeMatch(line) = <<>> /\ StartsWith(line, ExtPrefix)
           /\ Len(split(SubSeq(line, Len(ExtPrefix) + 1, Len(line)), ",")) >= 2

\* main() has called read_config on a file it could open
ReadDone == proc.reads = 1 /\ rcfile.readable

(***************************************************************************)
(* C15: on a readable file read_config fails (main exits with status 3)    *)
(* exactly when no pattern line compiled, no type line and no extension    *)
(* line with a pair was read; otherwise the load succeeds and the          *)
(* filesystem is served.                                                   *)
(***************************************************************************)
C15_LoadFailsIffEmpty ==
    ReadDone =>
        /\ (proc.pc = "exited" /\ proc.status = 3)
               <=> ~(HasValidPattern \/ HasTypeLine \/ HasExtensionPair)
        /\ proc.pc = "serving" <=> (HasValidPattern \/ HasTypeLine \/ HasExtensionPair)

\* a file with a type line and nothing else of effect has been loaded and
\* a callback served
C15_Witness ==
    /\ ReadDone
    /\ HasTypeLine /\ ~HasValidPattern /\ ~HasExtensionPair
    /\ proc.pc = "serving"
    /\ ~hasPattern /\ modes # {}
    /\ Called("getattr")

\* the file without its line i
WithoutLine(i) ==
    [rcfile EXCEPT !.lines = SubSeq(@, 1, i - 1) \o SubSeq(@, i + 1, Len(@))]

\* line i is a pattern line that does not compile
BadLine(i) == PatternLine(i) /\ regcomp(rcfile.lines[i]).err # 0

\* the pattern lines of the file that compile, compiled, in file order
RECURSIVE CompiledLines(_)
CompiledLines(i) ==
    IF i > Len(rcfile.lines) THEN <<>>
    ELSE (IF PatternLine(i) /\ regcomp(rcfile.lines[i]).err = 0
          THEN <<CompileBranch(rcfile.lines[i])>> ELSE <<>>) \o CompiledLines(i + 1)

\* the globals read_config has set
Policy == [hasPattern |-> hasPattern, pattern |-> pattern, modes |-> modes,
           extPriority |-> extPriority]

PolicyOf(r) == [hasPattern |-> r.hasPattern, pattern |-> r.pattern, modes |-> r.modes,
                extPriority |-> r.extPriority]

(***************************************************************************)
(* C16: a pattern line that does not compile is dropped: the return value  *)
(* of read_config and the policy it leaves (pattern, excluded types,       *)
(* extension relation) are those of the file without that line, and the    *)
(* combined pattern holds the compiling pattern lines in file order.       *)
(***************************************************************************)
C16_BadLineDropped ==
    ReadDone =>
        /\ \A i \in 1..Len(rcfile.lines) :
              BadLine(i) =>
                  /\ Policy = PolicyOf(read_config(WithoutLine(i)))
                  /\ (proc.pc = "serving") = (read_config(WithoutLine(i)).ret = 0)
        /\ proc.pc = "serving" => pattern = CompiledLines(1)

\* the file \.a$, (, d has been loaded: both patterns are in force
C16_Witness ==
    /\ ReadDone
    /\ rcfile.lines = <<<<"\\", DOT, "a", "$">>, <<"(">>, DirName>>
    /\ BadLine(2)
    /\ proc.pc = "serving"
    /\ pattern = <<Alt(<<DOT, "a">>, TRUE), Alt(DirName, FALSE)>>

\* s without the separators at its end
RECURSIVE StripTrailing(_)
StripTrailing(s) ==
    IF s # <<>> /\ s[Len(s)] = SLASH THEN StripTrailing(SubSeq(s, 1, Len(s) - 1)) ELSE s

\* s without the separators at its front
RECURSIVE StripLeading(_)
StripLeading(s) == IF s # <<>> /\ Head(s) = SLASH THEN StripLeading(Tail(s)) ELSE s

(***************************************************************************)
(* C17: translate_path returns the source root, one separator, and the     *)
(* portion of the virtual path relative to the mount root, however many    *)
(* separators end the source root or begin the virtual path.               *)
(***************************************************************************)
C17_OneSeparator ==
    Called("translate_path") =>
        call.trpath = StripTrailing(conf.rw_path) \o <<SLASH>> \o StripLeading(call.path)

\* what the callback of thread t returns when it runs with no other
\* callback in progress
Alone(t) ==
    LET me == threads[t]
    IN IF me.op = "getattr" THEN callback_getattr(fs, me.path, me.perm).ret
       ELSE IF me.op = "open" THEN callback_open(fs, me.path, me.flags).ret
       ELSE IF me.op = "readlink" THEN callback_readlink(fs, me.path, 2)
       ELSE IF me.op = "chmod" THEN callback_chmod(fs, me.path)
       ELSE callback_unlink(me.path)

(***************************************************************************)
(* C18: under every interleaving of the steps of two callbacks over a tree *)
(* that does not change, each callback returns what it returns when run    *)
(* alone, and a step of one callback changes neither the variables of the  *)
(* other callback nor any global.                                          *)
(***************************************************************************)
C18_ConcurrentCallsIndependent ==
    /\ [](\A t \in DOMAIN threads : threads[t].pc = "done" => threads[t].ret = Alone(t))
    /\ [][/\ \A t, u \in DOMAIN threads :
                (t # u /\ threads'[t] # threads[t]) => threads'[u] = threads[u]
          /\ UNCHANGED <<conf, hasPattern, pattern, modes, extPriority, fs>>]_vars

\* two callbacks on different paths are both beyond their lstat, and one has
\* returned its own result
C18_Witness ==
    /\ DOMAIN threads = Threads
    /\ threads[1].pc = "done" /\ threads[1].op = "getattr" /\ threads[1].ret = 0
    /\ threads[2].pc = "should_hide" /\ threads[2].op = "open"
    /\ threads[1].path # threads[2].path
    /\ threads[1].st # threads[2].st

\* the entries a listing reported and another process then unlinked, not
\* created again since
Unlinked == {n \in DOMAIN fs : fs[n] = Gone}

(***************************************************************************)
(* C19: once an entry that a listing emitted has been unlinked by another  *)
(* process, getattr on its path returns -ENOENT and a listing of its       *)
(* directory does not emit it.                                             *)
(***************************************************************************)
C19_NothingCached ==
    \A n \in Unlinked :
        /\ (Called("getattr") /\ call.path = VPath(n)) => call.ret = -ENOENT
        /\ (Called("readdir") /\ call.path = VPath(SubSeq(n, 1, Len(n) - 1)))
               => \A i \in 1..Len(call.names) : call.names[i] # n[Len(n)]

\* getattr has returned -ENOENT for d/x.a, which a listing of d had emitted
\* before the unlink
C19_Witness ==
    /\ <<DirName, FileName("a")>> \in Unlinked
    /\ Called("getattr") /\ call.path = VPath(<<DirName, FileName("a")>>)
    /\ call.ret = -ENOENT

(***************************************************************************)
(* C20: while the filesystem is served, pattern, hasPattern, modes,        *)
(* extPriority and conf (invert, preserve_perms, rw_path) are what startup *)
(* left: the globals are those read_config computed from the file, and no  *)
(* step taken while serving changes any of them.                           *)
(***************************************************************************)
C20_ConfigurationImmutable ==
    /\ [](proc.pc = "serving" => Policy = PolicyOf(read_config(rcfile)))
    /\ [][proc.pc = "serving" =>
              UNCHANGED <<conf, hasPattern, pattern, modes, extPriority>>]_vars

\* mounted inverted with a pattern and an excluded type loaded, getattr has
\* returned -ENOENT for an entry it hides
C20_Witness ==
    /\ proc.pc = "serving"
    /\ conf.invert /\ hasPattern /\ modes # {}
    /\ Policy = PolicyOf(read_config(rcfile))
    /\ Called("getattr") /\ call.ret = -ENOENT /\ call.lst # 0

ListingEmits(name) == Occurrences(call.names, name) > 0

LookupSucceeds(name) ==
    \A perm \in Perms : callback_getattr(fs, PathAppend(call.path, name), perm).ret = 0

(***************************************************************************)
(* C22 as stated: whenever readdir on a directory has returned success,    *)
(* it has emitted an entry of the real directory exactly when getattr on   *)
(* the entry succeeds, the entry's type known from the directory entry or  *)
(* not.                                                                    *)
(***************************************************************************)
C22_ListingAgreesWithLookup ==
    (Called("readdir") /\ call.ret = 0) =>
        \A k \in 1..Len(RealDents(call.path)) :
            ListingEmits(RealDents(call.path)[k].d_name)
                <=> LookupSucceeds(RealDents(call.path)[k].d_name)

(***************************************************************************)
(* C22, amended: the same when the filler never reports a full buffer.     *)
(***************************************************************************)
C22_ListingAgreesUnlessFull ==
    (Called("readdir") /\ call.ret = 0 /\ call.room = -1) =>
        \A k \in 1..Len(RealDents(call.path)) :
            ListingEmits(RealDents(call.path)[k].d_name)
                <=> LookupSucceeds(RealDents(call.path)[k].d_name)

\* a complete listing of the root, made without d_type, has emitted x.b and
\* left out x.a, and getattr succeeds on x.b and fails on x.a
C22_Witness ==
    /\ Called("readdir") /\ call.ret = 0 /\ call.room = -1 /\ ~call.known
    /\ call.path = <<SLASH>>
    /\ RealEntry(FileIn(<<SLASH>>, "a")).err = 0
    /\ ListingEmits(FileName("b")) /\ LookupSucceeds(FileName("b"))
    /\ ~ListingEmits(FileName("a")) /\ ~LookupSucceeds(FileName("a"))

\* the pattern rule hides the path: a match in normal mode, no match in
\* invert mode
PatternHides(path) ==
    IF conf.invert THEN ~(hasPattern /\ regexec(pattern, path) = 0)
    ELSE hasPattern /\ regexec(pattern, path) = 0

(***************************************************************************)
(* C23: when readdir on a real directory returns -ENOENT, the pattern rule *)
(* hides the directory's path; no rule on types or extensions does it.     *)
(***************************************************************************)
C23_OnlyPatternHidesDirectory ==
    ( /\ Called("readdir") /\ call.ret = -ENOENT
      /\ RealEntry(call.path).err = 0
      /\ RealEntry(call.path).ent.type = S_IFDIR )
    => PatternHides(call.path)

\* the existing entry behind path is hidden by the type rule or by the
\* pattern rule of normal mode
HiddenByTypeOrPattern(path) ==
    /\ RealEntry(path).err = 0
    /\ \/ RealEntry(path).ent.type \in modes
       \/ hasPattern /\ regexec(pattern, path) = 0

\* the paths of the existing siblings that the relation makes dominant
\* over the entry behind path
DominantSiblings(path) ==
    {replace_extension(path, pr[2]) :
        pr \in {q \in extPriority : q[1] = extension(path)
                                     /\ RealEntry(replace_extension(path, q[2])).err = 0}}

(***************************************************************************)
(* C24: in normal mode, getattr on an existing entry returns -ENOENT when  *)
(* a dominant sibling of it exists, also when that sibling is itself       *)
(* hidden by the type rule or the pattern rule, so that getattr returns    *)
(* -ENOENT for both.                                                       *)
(***************************************************************************)
C24_HiddenSiblingStillDominates ==
    ( /\ Called("getattr") /\ ~conf.invert
      /\ RealEntry(call.path).err = 0
      /\ \E dom \in DominantSiblings(call.path) : HiddenByTypeOrPattern(dom) )
    => /\ call.ret = -ENOENT
       /\ \A dom \in DominantSiblings(call.path) :
             HiddenByTypeOrPattern(dom) =>
                 \A perm \in Perms : callback_getattr(fs, dom, perm).ret = -ENOENT

(***************************************************************************)
(* C25: in normal mode with the extension rule alone, whatever other      *)
(* processes have unlinked and created before the call, getattr on an      *)
(* existing entry returns -ENOENT exactly when a dominant sibling of the   *)
(* entry exists in the tree as it is now, and a complete listing emits an  *)
(* entry exactly when no dominant sibling of it exists now.                *)
(***************************************************************************)
C25_DecisionFollowsTree ==
    ~conf.invert =>
        /\ (Called("getattr") /\ RealEntry(call.path).err = 0)
               => (call.ret = -ENOENT <=> DominantSiblings(call.path) # {})
        /\ (Called("getattr") /\ RealEntry(call.path).err = 0 /\ call.ret # -ENOENT)
               => call.ret = 0
        /\ (Called("readdir") /\ call.ret = 0 /\ call.room = -1)
               => \A k \in 1..Len(RealDents(call.path)) :
                     ListingEmits(RealDents(call.path)[k].d_name)
                         <=> DominantSiblings(PathAppend(call.path,
                                                         RealDents(call.path)[k].d_name)) = {}

\* x.a of the root was unlinked and x.a of d created by other processes;
\* getattr has then returned -ENOENT for d/x.b, and it shows x.b of the root
C25_Witness ==
    /\ ~conf.invert
    /\ fs[<<FileName("a")>>] = Gone
    /\ fs[<<DirName, FileName("a")>>] = Created
    /\ RealEntry(FileIn(<<SLASH>>, "b")).err = 0
    /\ Called("getattr") /\ call.path = FileIn(VPath(<<DirName>>), "b")
    /\ call.ret = -ENOENT
    /\ \A perm \in Perms : callback_getattr(fs, FileIn(<<SLASH>>, "b"), perm).ret = 0

\* the callbacks that begin with lstat on the translated path
LookupFirstOps ==
    {"getattr", "open", "read", "write", "statfs", "access", "getxattr", "listxattr"}

(***************************************************************************)
(* C26: when lstat on the real path fails, getattr, open, read, write,     *)
(* statfs, access, getxattr and listxattr return the negated errno of      *)
(* lstat, whatever the pattern, type and extension rules say about the     *)
(* path.                                                                   *)
(***************************************************************************)
C26_LookupErrorFirst ==
    (call.op \in LookupFirstOps /\ RealEntry(call.path).err # 0)
        => call.ret = -RealEntry(call.path).err

\* access has returned -ENOTDIR for d/x.a below the regular file d, a path
\* the pattern d of normal mode matches
C26_Witness ==
    /\ Called("access") /\ call.path = FileIn(VPath(<<DirName>>), "a")
    /\ RealEntry(call.path).err = ENOTDIR
    /\ ~conf.invert /\ hasPattern /\ regexec(pattern, call.path) = 0
    /\ call.ret = -ENOTDIR

(***************************************************************************)
(* C27: what should_hide returns for a path with the regular-file tag or   *)
(* the directory tag is what it returns for that path with either tag.     *)
(***************************************************************************)
C27_RegularAndDirectoryTagAgree ==
    (call.op = "should_hide" /\ BitAnd(call.flags, S_IFMT) \in {S_IFREG, S_IFDIR})
        => \A tag \in {S_IFREG, S_IFDIR} :
              call.ret = IF should_hide(fs, call.path, tag) THEN 1 ELSE 0

\* in invert mode with a type excluded, should_hide asked with the
\* directory tag has shown a path that the pattern matches
C27_Witness ==
    /\ call.op = "should_hide" /\ call.flags = S_IFDIR
    /\ conf.invert /\ modes # {}
    /\ hasPattern /\ regexec(pattern, call.path) = 0
    /\ call.ret = 0

\* the base type of the mode should_hide was called with
CallType == BitAnd(call.flags, S_IFMT)

(***************************************************************************)
(* C28: in normal mode should_hide returns true exactly when a dominant    *)
(* sibling of the path exists, or the base type of the mode is in modes,   *)
(* or there is a pattern and it matches the path; in invert mode it        *)
(* returns false exactly when the base type is in modes, or the base type  *)
(* is S_IFREG or S_IFDIR and there is a pattern and it matches the path.   *)
(***************************************************************************)
C28_RuleOrderNotObservable ==
    call.op = "should_hide" =>
        IF ~conf.invert
        THEN call.ret = 1 <=> \/ DominantSiblings(call.path) # {}
                              \/ CallType \in modes
                              \/ hasPattern /\ regexec(pattern, call.path) = 0
        ELSE call.ret = 0 <=> \/ CallType \in modes
                              \/ /\ CallType \in {S_IFREG, S_IFDIR}
                                 /\ hasPattern /\ regexec(pattern, call.path) = 0

\* the pairs that line i of the file gives when it is an
\* |extensionPriority: line
LinePairs(i) ==
    IF StartsWith(rcfile.lines[i], ExtPrefix)
    THEN ExtensionPairs(split(SubSeq(rcfile.lines[i], Len(ExtPrefix) + 1,
                                     Len(rcfile.lines[i])), ","))
    ELSE {}

\* one line of the file orders a before b and another b before a, in
\* normal mode, and x.a and x.b are both in the root
ContradictingLines ==
    /\ \E i, j \in DOMAIN rcfile.lines :
          rcfile.lines[i] = ExtLine(<<"a", "b">>) /\ rcfile.lines[j] = ExtLine(<<"b", "a">>)
    /\ ~conf.invert /\ proc.pc = "serving"
    /\ RealEntry(FileIn(<<SLASH>>, "a")).err = 0
    /\ RealEntry(FileIn(<<SLASH>>, "b")).err = 0

(***************************************************************************)
(* C29: after startup extPriority is the union of the pairs of the         *)
(* |extensionPriority: lines of the file; when one line orders a before b  *)
(* and another b before a and x.a and x.b both exist, getattr in normal    *)
(* mode returns -ENOENT for both and a listing of their directory emits    *)
(* neither.                                                                *)
(***************************************************************************)
C29_ContradictingLinesHideBoth ==
    /\ proc.pc = "serving" => extPriority = UNION {LinePairs(i) : i \in DOMAIN rcfile.lines}
    /\ ContradictingLines =>
          /\ (Called("getattr") /\ call.path \in {FileIn(<<SLASH>>, "a"), FileIn(<<SLASH>>, "b")})
                 => call.ret = -ENOENT
          /\ (Called("readdir") /\ call.path = <<SLASH>>)
                 => ~ListingEmits(FileName("a")) /\ ~ListingEmits(FileName("b"))

\* with the two contradicting lines loaded, a complete listing of the root
\* has returned without x.a and without x.b
C29_Witness ==
    /\ ContradictingLines
    /\ Cardinality(extPriority) = 2
    /\ Called("readdir") /\ call.path = <<SLASH>> /\ call.ret = 0 /\ call.room = -1
    /\ ~ListingEmits(FileName("a")) /\ ~ListingEmits(FileName("b"))
    /\ ListingEmits(DirName)

\* the read of thread t has passed its hide check on a regular file and
\* has come to its end
ReadPassed(t) ==
    /\ threads[t].op = "read" /\ threads[t].pc = "done"
    /\ threads[t].shown
    /\ threads[t].st.ent.type = S_IFREG

(***************************************************************************)
(* C30: a read that has passed its hide check on a regular file returns    *)
(* the number of bytes of the file from its offset on, whatever other      *)
(* processes have created since the check, also when should_hide now       *)
(* hides the path and a read that starts now returns -ENOENT.              *)
(***************************************************************************)
C30_HideDecidedOnce ==
    \A t \in DOMAIN threads :
        ReadPassed(t) =>
            /\ threads[t].ret = FileSize - threads[t].offset
            /\ Hidden(threads[t].path) =>
                  callback_read(fs, threads[t].path, FileSize + 1, threads[t].offset).ret = -ENOENT

\* the read of x.b from offset 0 has returned its bytes; x.a was created
\* after the hide check, and a read of x.b that starts now returns -ENOENT
C30_Witness ==
    /\ DOMAIN threads # {}
    /\ \E t \in DOMAIN threads :
        /\ ReadPassed(t)
        /\ threads[t].path = FileIn(<<SLASH>>, "b") /\ threads[t].offset = 0
        /\ threads[t].ret = FileSize /\ FileSize > 0
        /\ fs[<<FileName("a")>>] = Created
        /\ Hidden(threads[t].path)
        /\ callback_read(fs, threads[t].path, FileSize + 1, 0).ret = -ENOENT

====
